---- MODULE Spec2Model ----
(***************************************************************************)
(* A model of the Recalc engine of anki-morphs (src/ankimorphs/recalc.py). *)
(*                                                                         *)
(* Text is a sequence of tokens.  A token is a letter or one whole tag:    *)
(* "<span>" stands for an opening span tag that was already in the text,   *)
(* OpenTag(s) for the opening tag highlight_text writes for status s, and  *)
(* "</span>" for the closing tag.  Morpheme surface forms are non-empty    *)
(* sequences of letters, so the pattern "(" + inflected + ")" is a literal.*)
(***************************************************************************)
EXTENDS Integers, Sequences, FiniteSets, TLC

VARIABLES
    hl_morphs,      \* highlight_text: card_morphs, list of morph dicts
    hl_cache,       \* highlight_text: morph_cache, entire_morph -> interval
    hl_text,        \* highlight_text: text_to_highlight
    hl_out,         \* highlight_text: the texts returned so far
    hl_pc,          \* position of the highlighting harness
    sc_skip_stale,  \* scorer: am_config.skip_stale_cards
    sc_prioritize,  \* scorer: am_config.recalc_prioritize_collection
    sc_map,         \* scorer: card_morph_map_cache, card id -> list of morph dicts
    sc_cache,       \* scorer: morph_cache, entire_morph -> interval
    sc_priority,    \* scorer: morph_priority, entire_morph -> rank
    sc_res,         \* scorer: card id -> what the call returned or raised
    tg_tags,        \* update_tags: note.tags
    tg_unknowns,    \* update_tags: the unknown count of the last call, -1 before
    col_cards,      \* host collection: card id -> [nid, type, ivl, due, queue]
    col_notes,      \* host collection: note id -> [mid, fields, tags]
    am_config,      \* AnkiMorphsConfig and its filters
    am_db,          \* ankimorphs.db: the tables Cards, Morphs, Card_Morph_Map
    pc,             \* where the Recalc operation stands
    error,          \* the exception that ended the background operation
    want_cancel,    \* mw.progress.want_cancel()
    progress,       \* the progress indicator is shown
    outcome,        \* what on_success / on_failure reported last
    loop,           \* the running loop: [filter, ids, counter]
    tables,         \* cache_anki_data: the three *_table_data lists
    caches,         \* update_cards: morph_cache, card_morph_map_cache,
                    \*   morph_priority, end_of_queue
    modified_cards, \* update_cards: list of [id, type, due]
    modified_notes, \* update_cards: list of [id, fields, tags]
    hist,           \* history: the state at the start of the run, where a
                    \*   cancellation was seen, the state after the last run
                    \*   that succeeded, reviews and runs so far
    cp,             \* a card loop with its checkpoints: [amount, counter,
                    \*   want_cancel, set_at, read, pc]
    ui              \* the add-on in the host's windows: hooks, menus, the
                    \*   reviewer's nextCard, the seen-morphs table

hlVars == <<hl_morphs, hl_cache, hl_text, hl_out, hl_pc>>

scVars == <<sc_skip_stale, sc_prioritize, sc_map, sc_cache, sc_priority, sc_res>>

tgVars == <<tg_tags, tg_unknowns>>

colVars == <<col_cards, col_notes>>

runVars == <<pc, error, want_cancel, progress, outcome, loop, tables, caches,
             modified_cards, modified_notes>>

opVars == <<colVars, am_config, am_db, runVars, hist>>

harnessVars == <<hlVars, scVars, tgVars, cp, ui>>

vars == <<harnessVars, opVars>>

-----------------------------------------------------------------------------
(* Bounds of the model *)

MaxTextLen == 3

MaxUnknowns == 3

MaxReviews == 1

MaxRuns == 2

-----------------------------------------------------------------------------
(* Strings *)

Letters == {"a", "b", "A"}

Lower(c) == IF c = "A" THEN "a" ELSE IF c = "B" THEN "b" ELSE c

CloseTag == "</span>"

UserOpenTag == "<span>"

OpenTag(status) == "<span morph-status=" \o status \o ">"

Statuses == {"unknown", "learning", "known"}

StartsWithSpan(tok) == tok = UserOpenTag \/ tok \in {OpenTag(s) : s \in Statuses}

SeqsUpTo(S, n) == UNION {[1..k -> S] : k \in 0..n}

RECURSIVE Concat(_)
Concat(ss) == IF ss = <<>> THEN <<>> ELSE Head(ss) \o Concat(Tail(ss))

-----------------------------------------------------------------------------
(* Configuration values *)

recalc_interval_for_known == 21

tag_known == "am-known"

tag_ready == "am-ready"

tag_not_ready == "am-not-ready"

EmptyDict == [k \in {} |-> 0]

Range(f) == {f[k] : k \in DOMAIN f}

\* a morph dict as get_card_morph_map_cache builds it
MorphDict(norm, inflected) ==
    [entire_morph |-> norm \o inflected, inflected_morph |-> inflected]

-----------------------------------------------------------------------------
(* Difficulty scorer *)

default_difficulty == 2147483647

morph_unknown_penalty == 500000

\* the sum of priorities without the limit below the penalty
clamp_none(difficulty) == difficulty

clamp_priority_sum(difficulty) ==
    IF difficulty >= morph_unknown_penalty THEN morph_unknown_penalty - 1
    ELSE difficulty

\* The loop over the card's morphs.  acc is [raised, difficulty, unknowns];
\* a key missing from a dict raises KeyError and ends the loop.
RECURSIVE score_loop(_, _, _, _)
score_loop(card_morphs, morph_cache, morph_priority, acc) ==
    IF card_morphs = <<>> THEN acc
    ELSE LET morph == Head(card_morphs) IN
         IF morph.entire_morph \notin DOMAIN morph_cache
         THEN [acc EXCEPT !.raised = "KeyError"]
         ELSE LET is_unknown == morph_cache[morph.entire_morph] = 0
                  unknowns == IF is_unknown
                              THEN Append(acc.unknowns, morph.inflected_morph)
                              ELSE acc.unknowns
              IN IF morph.entire_morph \notin DOMAIN morph_priority
                 THEN [raised |-> "KeyError", difficulty |-> acc.difficulty,
                       unknowns |-> unknowns]
                 ELSE score_loop(Tail(card_morphs), morph_cache, morph_priority,
                          [raised |-> "",
                           difficulty |-> acc.difficulty
                                            + morph_priority[morph.entire_morph],
                           unknowns |-> unknowns])

\* the option skip_stale_cards not read
get_card_difficulty_and_unknowns_nostale(skip_stale_cards, card_id, card_morph_map_cache, morph_cache, morph_priority) ==
    IF card_id \notin DOMAIN card_morph_map_cache
    THEN [raised |-> "", difficulty |-> default_difficulty, unknowns |-> <<>>]
    ELSE LET r == score_loop(card_morph_map_cache[card_id], morph_cache,
                             morph_priority,
                             [raised |-> "", difficulty |-> 0, unknowns |-> <<>>])
         IN IF r.raised # "" THEN r
            ELSE [r EXCEPT !.difficulty =
                     clamp_priority_sum(r.difficulty)
                       + Len(r.unknowns) * morph_unknown_penalty]

\* the KeyError of a card without morphs not caught
get_card_difficulty_and_unknowns_uncaught(skip_stale_cards, card_id, card_morph_map_cache, morph_cache, morph_priority) ==
    IF card_id \notin DOMAIN card_morph_map_cache
    THEN [raised |-> "KeyError", difficulty |-> 0, unknowns |-> <<>>]
    ELSE LET r == score_loop(card_morph_map_cache[card_id], morph_cache,
                             morph_priority,
                             [raised |-> "", difficulty |-> 0, unknowns |-> <<>>])
         IN IF r.raised # "" THEN r
            ELSE IF Len(r.unknowns) = 0 /\ skip_stale_cards
                 THEN [r EXCEPT !.difficulty = default_difficulty]
                 ELSE [r EXCEPT !.difficulty =
                          clamp_priority_sum(r.difficulty)
                            + Len(r.unknowns) * morph_unknown_penalty]

get_card_difficulty_and_unknowns(skip_stale_cards, card_id, card_morph_map_cache, morph_cache, morph_priority) ==
    IF card_id \notin DOMAIN card_morph_map_cache
    THEN [raised |-> "", difficulty |-> default_difficulty, unknowns |-> <<>>]
    ELSE LET r == score_loop(card_morph_map_cache[card_id], morph_cache,
                             morph_priority,
                             [raised |-> "", difficulty |-> 0, unknowns |-> <<>>])
         IN IF r.raised # "" THEN r
            ELSE IF Len(r.unknowns) = 0 /\ skip_stale_cards
                 THEN [r EXCEPT !.difficulty = default_difficulty]
                 ELSE [r EXCEPT !.difficulty =
                          clamp_priority_sum(r.difficulty)
                            + Len(r.unknowns) * morph_unknown_penalty]

-----------------------------------------------------------------------------
(* Tags *)

\* the tag appended without the test that it is not on the note yet
AddTagAlways(tags, t) == Append(tags, t)

\* list.remove(x): the list without its first x
RECURSIVE ListRemove(_, _)
ListRemove(list, x) ==
    IF list = <<>> THEN <<>>
    ELSE IF Head(list) = x THEN Tail(list)
    ELSE <<Head(list)>> \o ListRemove(Tail(list), x)

AddTag(tags, t) == IF t \notin Range(tags) THEN Append(tags, t) ELSE tags

DropTag(tags, t) == IF t \in Range(tags) THEN ListRemove(tags, t) ELSE tags

update_tags(note_tags, unknowns) ==
    IF unknowns = 0 THEN DropTag(AddTag(note_tags, tag_known), tag_ready)
    ELSE IF unknowns = 1 THEN DropTag(AddTag(note_tags, tag_ready), tag_not_ready)
    ELSE AddTag(note_tags, tag_not_ready)

-----------------------------------------------------------------------------
(* Highlighter *)

\* re.split("(<span.*?</span>)", string): the pieces, text and span regions
\* alternating.  A region runs from the leftmost opening tag that has a
\* closing tag after it to the first such closing tag.
RegionStart(s) ==
    LET cand == {i \in 1..Len(s) :
                    StartsWithSpan(s[i]) /\ \E j \in (i+1)..Len(s) : s[j] = CloseTag}
    IN IF cand = {} THEN 0 ELSE CHOOSE i \in cand : \A k \in cand : i <= k

RegionEnd(s, i) == CHOOSE j \in (i+1)..Len(s) :
                      s[j] = CloseTag /\ \A k \in (i+1)..(j-1) : s[k] # CloseTag

RECURSIVE re_split(_)
re_split(s) ==
    LET i == RegionStart(s) IN
    IF i = 0 THEN <<s>>
    ELSE LET j == RegionEnd(s, i) IN
         <<SubSeq(s, 1, i-1), SubSeq(s, i, j)>> \o re_split(SubSeq(s, j+1, Len(s)))

\* the pattern matches at position i of s, ignoring case
MatchAt(pat, s, i) ==
    /\ i + Len(pat) - 1 <= Len(s)
    /\ \A k \in 1..Len(pat) : Lower(s[i+k-1]) = Lower(pat[k])

\* re.sub("(pat)", '<span morph-status="status">\1</span>', s, flags=re.IGNORECASE)
RECURSIVE re_sub(_, _, _)
re_sub(pat, status, s) ==
    IF s = <<>> THEN <<>>
    ELSE IF MatchAt(pat, s, 1)
         THEN <<OpenTag(status)>> \o SubSeq(s, 1, Len(pat)) \o <<CloseTag>>
              \o re_sub(pat, status, SubSeq(s, Len(pat)+1, Len(s)))
         ELSE <<Head(s)>> \o re_sub(pat, status, Tail(s))

\* non_span_sub without the test that skips the span regions
non_span_sub_noskip(pat, status, string) == re_sub(pat, status, string)

non_span_sub(pat, status, string) ==
    LET pieces == re_split(string)
        out(span) == IF span # <<>> /\ StartsWithSpan(span[1])
                     THEN span
                     ELSE re_sub(pat, status, span)
    IN Concat([k \in 1..Len(pieces) |-> out(pieces[k])])

morph_status(highest_interval) ==
    IF highest_interval = 0 THEN "unknown"
    ELSE IF highest_interval < recalc_interval_for_known THEN "learning"
    ELSE "known"

\* sorted(card_morphs, key=len(inflected_morph), reverse=True): stable
RECURSIVE InsertByLen(_, _)
InsertByLen(m, sorted) ==
    IF sorted = <<>> THEN <<m>>
    ELSE IF Len(Head(sorted).inflected_morph) >= Len(m.inflected_morph)
         THEN <<Head(sorted)>> \o InsertByLen(m, Tail(sorted))
         ELSE <<m>> \o sorted

\* sorted() without reverse=True: shortest first
RECURSIVE InsertByLenAsc(_, _)
InsertByLenAsc(m, sorted) ==
    IF sorted = <<>> THEN <<m>>
    ELSE IF Len(Head(sorted).inflected_morph) <= Len(m.inflected_morph)
         THEN <<Head(sorted)>> \o InsertByLenAsc(m, Tail(sorted))
         ELSE <<m>> \o sorted

RECURSIVE sorted_morphs_asc(_)
sorted_morphs_asc(card_morphs) ==
    IF card_morphs = <<>> THEN <<>>
    ELSE InsertByLenAsc(card_morphs[Len(card_morphs)],
                        sorted_morphs_asc(SubSeq(card_morphs, 1, Len(card_morphs)-1)))

RECURSIVE sorted_morphs(_)
sorted_morphs(card_morphs) ==
    IF card_morphs = <<>> THEN <<>>
    ELSE InsertByLen(card_morphs[Len(card_morphs)],
                     sorted_morphs(SubSeq(card_morphs, 1, Len(card_morphs)-1)))

RECURSIVE highlight_loop(_, _, _)
highlight_loop(morphs, morph_cache, highlighted_text) ==
    IF morphs = <<>> THEN highlighted_text
    ELSE highlight_loop(Tail(morphs), morph_cache,
             non_span_sub(Head(morphs).inflected_morph,
                          morph_status(morph_cache[Head(morphs).entire_morph]),
                          highlighted_text))

highlight_text(card_morphs, morph_cache, text_to_highlight) ==
    highlight_loop(sorted_morphs(card_morphs), morph_cache, text_to_highlight)

-----------------------------------------------------------------------------
(* Harness of the highlighter: draw a text and a card's morphemes, apply   *)
(* highlight_text, apply it again to its own output.                       *)

\* the variables of the harnesses that a specification does not use
HLIdle ==
    /\ hl_morphs = <<>> /\ hl_cache = EmptyDict /\ hl_text = <<>>
    /\ hl_out = <<>> /\ hl_pc = "off"

SCIdle ==
    /\ sc_skip_stale = FALSE /\ sc_prioritize = FALSE /\ sc_map = EmptyDict
    /\ sc_cache = EmptyDict /\ sc_priority = EmptyDict /\ sc_res = EmptyDict

TGIdle == tg_tags = <<>> /\ tg_unknowns = -1

CPIdle == cp = EmptyDict

UIIdle == ui = EmptyDict

OPIdle ==
    /\ col_cards = EmptyDict /\ col_notes = EmptyDict
    /\ am_config = EmptyDict /\ am_db = EmptyDict
    /\ pc = "off" /\ error = "" /\ want_cancel = FALSE /\ progress = FALSE
    /\ outcome = "" /\ loop = EmptyDict /\ tables = EmptyDict
    /\ caches = EmptyDict /\ modified_cards = <<>> /\ modified_notes = <<>>
    /\ hist = EmptyDict

HLAlphabet == Letters \cup {UserOpenTag, CloseTag}

HLTexts == SeqsUpTo(HLAlphabet, MaxTextLen)

HLSurfaces == {<<"a">>, <<"b">>, <<"a", "a">>, <<"a", "b">>, <<"b", "a">>}

HLIntervals == {0, 5, recalc_interval_for_known}

HLMorphLists ==
    {<<MorphDict(s, s)>> : s \in HLSurfaces}
    \cup {<<MorphDict(p[1], p[1]), MorphDict(p[2], p[2])>> :
             p \in {q \in HLSurfaces \X HLSurfaces : q[1] # q[2]}}

HLInit ==
    /\ hl_morphs \in HLMorphLists
    /\ hl_cache \in [{hl_morphs[k].entire_morph : k \in 1..Len(hl_morphs)} -> HLIntervals]
    /\ hl_text \in HLTexts
    /\ hl_out = <<>>
    /\ hl_pc = "text"
    /\ SCIdle
    /\ TGIdle
    /\ OPIdle
    /\ CPIdle
    /\ UIIdle

HLApply ==
    /\ hl_pc = "text"
    /\ hl_out' = <<highlight_text(hl_morphs, hl_cache, hl_text)>>
    /\ hl_pc' = "once"
    /\ UNCHANGED <<hl_morphs, hl_cache, hl_text, scVars, tgVars, opVars, cp, ui>>

HLApplyAgain ==
    /\ hl_pc = "once"
    /\ hl_out' = Append(hl_out, highlight_text(hl_morphs, hl_cache, hl_out[1]))
    /\ hl_pc' = "twice"
    /\ UNCHANGED <<hl_morphs, hl_cache, hl_text, scVars, tgVars, opVars, cp, ui>>

HLNext == HLApply \/ HLApplyAgain

HLSpec == HLInit /\ [][HLNext]_vars

-----------------------------------------------------------------------------
(* Measuring a highlighted text against its source text *)

InsertedOpens == {OpenTag(st) : st \in Statuses}

\* the number of tokens of s before its first closing tag
RECURSIVE ToClose(_)
ToClose(s) == IF s = <<>> \/ Head(s) = CloseTag THEN 0 ELSE 1 + ToClose(Tail(s))

\* The spans highlight_text wrote into a text that held none of its tags:
\* pairs <<start, length>> in positions of the source text.
RECURSIVE Wraps(_, _)
Wraps(out, srcpos) ==
    IF out = <<>> THEN {}
    ELSE IF Head(out) \in InsertedOpens
         THEN LET n == ToClose(Tail(out)) IN
              {<<srcpos, n>>} \cup Wraps(SubSeq(out, n + 3, Len(out)), srcpos + n)
         ELSE Wraps(Tail(out), srcpos + 1)

Surfaces(card_morphs) == {card_morphs[k].inflected_morph : k \in 1..Len(card_morphs)}

Occurrences(pat, text) == {i \in 1..Len(text) : MatchAt(pat, text, i)}

\* S is a substring of the longer L
SubstringOf(S, L) == Len(S) < Len(L) /\ Occurrences(S, L) # {}

\* the occurrence of S at q lies inside the occurrence of L at p
Inside(q, S, p, L) == p <= q /\ q + Len(S) <= p + Len(L)

Overlap(p1, n1, p2, n2) == p1 < p2 + n2 /\ p2 < p1 + n1

\* no other occurrence of a morpheme at least as long as L overlaps L at p
Undisturbed(p, L, card_morphs, text) ==
    \A K \in Surfaces(card_morphs) : \A r \in Occurrences(K, text) :
        (Len(K) >= Len(L) /\ Overlap(r, Len(K), p, Len(L)))
            => (r = p /\ Len(K) = Len(L))

LengthsDescend(morphs) ==
    \A k \in 1..(Len(morphs) - 1) :
        Len(morphs[k].inflected_morph) >= Len(morphs[k+1].inflected_morph)

-----------------------------------------------------------------------------
(* Claims about the highlighter *)

\* C5: highlight_text applied to its own output, with the same morphemes,
\* returns that output unchanged.
C5_HighlightIdempotent == hl_pc = "twice" => hl_out[2] = hl_out[1]

\* C5 witness: a text in which the first application wrapped a morpheme and
\* that held a span region before, highlighted twice.
C5_Witness ==
    /\ hl_pc = "twice"
    /\ hl_out[1] # hl_text
    /\ UserOpenTag \in {hl_text[k] : k \in 1..Len(hl_text)}
    /\ CloseTag \in {hl_text[k] : k \in 1..Len(hl_text)}

-----------------------------------------------------------------------------
(* Harness of the scorer: draw the caches and the options, score two cards *)

SCCards == {1, 2}

SCMorphs == {MorphDict(<<"a">>, <<"a">>), MorphDict(<<"b">>, <<"b">>),
             MorphDict(<<"c">>, <<"c">>)}

SCKeys == {m.entire_morph : m \in SCMorphs}

\* the lists a card can have in card_morph_map_cache: distinct morphs
SCLists == {l \in SeqsUpTo(SCMorphs, 2) :
               l # <<>> /\ \A i, j \in 1..Len(l) : i # j => l[i] # l[j]}

SCIntervals == {0, 5}

\* ranks that stay below the penalty and ranks whose sum reaches it
SCRanks == {0, 7, 300000}

SCInit ==
    /\ sc_skip_stale \in BOOLEAN
    /\ sc_prioritize \in BOOLEAN
    /\ \E D \in SUBSET SCCards : sc_map \in [D -> SCLists]
    /\ sc_cache \in [SCKeys -> SCIntervals]
    \* get_morph_priority returns the empty dict when prioritizing is off
    /\ IF sc_prioritize THEN sc_priority \in [SCKeys -> SCRanks]
                        ELSE sc_priority = EmptyDict
    /\ sc_res = EmptyDict
    /\ HLIdle
    /\ TGIdle
    /\ OPIdle
    /\ CPIdle
    /\ UIIdle

SCScore(card_id) ==
    /\ card_id \notin DOMAIN sc_res
    /\ sc_res' = [c \in DOMAIN sc_res \cup {card_id} |->
                    IF c = card_id
                    THEN get_card_difficulty_and_unknowns(sc_skip_stale, card_id,
                             sc_map, sc_cache, sc_priority)
                    ELSE sc_res[c]]
    /\ UNCHANGED <<sc_skip_stale, sc_prioritize, sc_map, sc_cache, sc_priority,
                   hlVars, tgVars, opVars, cp, ui>>

SCNext == \E card_id \in SCCards : SCScore(card_id)

SCSpec == SCInit /\ [][SCNext]_vars

Returned(card_id) == card_id \in DOMAIN sc_res /\ sc_res[card_id].raised = ""

\* the card gets the sentinel: no cached morphs, or stale with the option on
Sentinel(card_id) ==
    \/ card_id \notin DOMAIN sc_map
    \/ sc_skip_stale /\ Len(sc_res[card_id].unknowns) = 0

\* C3 as stated: a card with strictly fewer unknown morphemes than another
\* has a strictly smaller difficulty, whatever the ranks and the options.
C3_FewerUnknownsLower ==
    \A A \in SCCards, B \in SCCards :
        (Returned(A) /\ Returned(B)
           /\ Len(sc_res[A].unknowns) < Len(sc_res[B].unknowns))
            => sc_res[A].difficulty < sc_res[B].difficulty

\* C3 amended: a card with strictly fewer unknown morphemes than another has
\* a strictly smaller difficulty, whatever the ranks, unless it is given the
\* sentinel (it has no cached morphemes, or it has no unknown morpheme and
\* skip_stale_cards is on).
C3_FewerUnknownsLowerUnlessSentinel ==
    \A A \in SCCards, B \in SCCards :
        (Returned(A) /\ Returned(B) /\ ~Sentinel(A)
           /\ Len(sc_res[A].unknowns) < Len(sc_res[B].unknowns))
            => sc_res[A].difficulty < sc_res[B].difficulty

\* C3 witness: the card with fewer unknowns has the larger sum of ranks, and
\* that sum reaches the penalty.
C3_Witness ==
    /\ Returned(1) /\ Returned(2) /\ ~Sentinel(1)
    /\ Len(sc_res[1].unknowns) = 1 /\ Len(sc_res[2].unknowns) = 2
    /\ Len(sc_map[1]) = 2
    /\ sc_priority[sc_map[1][1].entire_morph] = 300000
    /\ sc_priority[sc_map[1][2].entire_morph] = 300000
    /\ sc_priority[sc_map[2][1].entire_morph] = 0

\* C10 as stated: with prioritizing off, scoring a card that has morphemes
\* returns, and the difficulty is 500000 times the number of unknowns (the
\* sentinel for a stale card).
C10_NoPriorityScores ==
    \A c \in DOMAIN sc_res :
        (~sc_prioritize /\ c \in DOMAIN sc_map) =>
            /\ sc_res[c].raised = ""
            /\ sc_res[c].difficulty =
                 IF sc_skip_stale /\ Len(sc_res[c].unknowns) = 0
                 THEN default_difficulty
                 ELSE morph_unknown_penalty * Len(sc_res[c].unknowns)

\* the sum of the ranks of a card's morphs, and its morphs of interval 0
RECURSIVE RankSum(_)
RankSum(card_morphs) ==
    IF card_morphs = <<>> THEN 0
    ELSE sc_priority[Head(card_morphs).entire_morph] + RankSum(Tail(card_morphs))

IsUnknownMorph(morph) == sc_cache[morph.entire_morph] = 0

Min(x, y) == IF x <= y THEN x ELSE y

\* C11: a card with cached morphemes that is scored, and not given the
\* sentinel, gets min(sum of the ranks of its morphemes, 499999) plus 500000
\* for each morpheme of interval 0, and its unknowns are the surface forms of
\* exactly those morphemes, in the order of the card's list.
C11_DifficultyFormula ==
    \A c \in DOMAIN sc_res :
        (Returned(c) /\ ~Sentinel(c)) =>
            LET zero == SelectSeq(sc_map[c], IsUnknownMorph) IN
            /\ sc_res[c].difficulty
                  = Min(RankSum(sc_map[c]), 499999) + 500000 * Len(zero)
            /\ sc_res[c].unknowns
                  = [k \in 1..Len(zero) |-> zero[k].inflected_morph]

\* C11 witness: the ranks of a scored card sum to more than 499999, and one
\* of its two morphemes has interval 0.
C11_Witness ==
    \E c \in DOMAIN sc_res :
        /\ Returned(c) /\ ~Sentinel(c)
        /\ Len(sc_map[c]) = 2
        /\ RankSum(sc_map[c]) = 600000
        /\ Len(sc_res[c].unknowns) = 1
        /\ sc_res[c].difficulty = 999999

-----------------------------------------------------------------------------
(* Harness of update_tags: any tag list, then calls with any unknown count *)

TGTags == {tag_known, tag_ready, tag_not_ready, "user"}

TGLists == {l \in SeqsUpTo(TGTags, Cardinality(TGTags)) :
               \A i, j \in 1..Len(l) : i # j => l[i] # l[j]}

TGInit ==
    /\ tg_tags \in TGLists
    /\ tg_unknowns = -1
    /\ HLIdle
    /\ SCIdle
    /\ OPIdle
    /\ CPIdle
    /\ UIIdle

TGUpdate(unknowns) ==
    /\ tg_tags' = update_tags(tg_tags, unknowns)
    /\ tg_unknowns' = unknowns
    /\ UNCHANGED <<hlVars, scVars, opVars, cp, ui>>

TGNext == \E unknowns \in 0..MaxUnknowns : TGUpdate(unknowns)

TGSpec == TGInit /\ [][TGNext]_vars

StateTags == {tag_known, tag_ready, tag_not_ready}

TagFor(unknowns) ==
    IF unknowns = 0 THEN tag_known
    ELSE IF unknowns = 1 THEN tag_ready
    ELSE tag_not_ready

\* C4 as stated: after update_tags the note carries exactly one of the tags
\* known, ready, not-ready: the one that matches the unknown count.
C4_OneStateTag ==
    tg_unknowns >= 0 => Range(tg_tags) \cap StateTags = {TagFor(tg_unknowns)}

\* the tags of a list that are none of known, ready, not-ready, in order
OtherTags(tags) == SelectSeq(tags, LAMBDA t : t \notin StateTags)

NoDuplicates(list) == \A i, j \in 1..Len(list) : i # j => list[i] # list[j]

\* C21: every call of update_tags gives a tag list on which the same call
\* changes nothing more (twice is the same as once), in which no tag occurs
\* twice, and whose tags other than known, ready and not-ready are those of
\* the list before the call, in the same order.
C21_UpdateTagsIdempotent ==
    [][tg_unknowns' >= 0 =>
          /\ update_tags(tg_tags', tg_unknowns') = tg_tags'
          /\ NoDuplicates(tg_tags')
          /\ OtherTags(tg_tags') = OtherTags(tg_tags)]_vars

\* a call with the tag to add already on the note and the tag to remove
\* absent, next to a tag of the user
C21_Witness ==
    /\ tg_unknowns = 1
    /\ tag_ready \in Range(tg_tags)
    /\ tag_known \in Range(tg_tags)
    /\ tag_not_ready \notin Range(tg_tags)
    /\ "user" \in Range(tg_tags)

-----------------------------------------------------------------------------
(* The host collection and the configuration *)

CARD_TYPE_NEW == 0

CARD_TYPE_REV == 2

QUEUE_SUSPENDED == -1

CheckpointEvery == 1000

\* the ids of a set in ascending order, as rows come out of the database
RECURSIVE Ascending(_)
Ascending(S) ==
    IF S = {} THEN <<>>
    ELSE LET m == CHOOSE x \in S : \A y \in S : x <= y
         IN <<m>> \o Ascending(S \ {m})

\* every order in which the elements of a set can be iterated
Orders(S) == {o \in [1..Cardinality(S) -> S] :
                 \A i, j \in 1..Cardinality(S) : i # j => o[i] # o[j]}

get_read_enabled_filters == SelectSeq(am_config.filters, LAMBDA f : f.read)

get_modify_enabled_filters == SelectSeq(am_config.filters, LAMBDA f : f.modify)

\* tags == [""] stands for no tag; else every tag must be on the note
TagsMatch(tags, note_tags) ==
    \/ Len(tags) = 1 /\ tags[1] = ""
    \/ \A k \in 1..Len(tags) : tags[k] \in Range(note_tags)

\* SELECT ... FROM cards INNER JOIN notes ... WHERE notes.mid = model_id ...
get_anki_data(model_id, tags, ignore_suspended) ==
    LET hit == {c \in DOMAIN col_cards :
                   /\ col_notes[col_cards[c].nid].mid = model_id
                   /\ ignore_suspended => col_cards[c].queue # QUEUE_SUSPENDED
                   /\ TagsMatch(tags, col_notes[col_cards[c].nid].tags)}
        ids == Ascending(hit)
    IN [k \in 1..Len(ids) |->
           [card_id |-> ids[k],
            interval |-> col_cards[ids[k]].ivl,
            type |-> col_cards[ids[k]].type,
            note_id |-> col_cards[ids[k]].nid,
            fields |-> col_notes[col_cards[ids[k]].nid].fields,
            tags |-> col_notes[col_cards[ids[k]].nid].tags]]

\* AnkiCardData: the row with the expression field and the known-tag flag
AnkiCardData(config_filter, row) ==
    [card_id |-> row.card_id, interval |-> row.interval, type |-> row.type,
     note_id |-> row.note_id, fields |-> row.fields, tags |-> row.tags,
     expression |-> row.fields[config_filter.field_index + 1],
     known_tag |-> tag_known \in Range(row.tags)]

create_card_data_dict(config_filter, model_id, tags, ignore_suspended) ==
    LET rows == get_anki_data(model_id, tags, ignore_suspended)
    IN [k \in 1..Len(rows) |-> AnkiCardData(config_filter, rows[k])]

\* the tokenizer: every letter of the expression is a morpheme, its lemma
\* the lower-case letter
get_morphemes(expression) ==
    [k \in 1..Len(expression) |->
        [norm |-> <<Lower(expression[k])>>, inflected |-> <<expression[k]>>]]

\* the names get_morphemizer_by_name knows; any other name is a KeyError
morphemizers_by_name == {"CharacterMorphemizer"}

\* every occurrence kept apart: a list of the morphemes, not their set
get_card_morphs_occurrences(expression, am_filter) ==
    [none |-> FALSE,
     morphs |-> {[norm |-> get_morphemes(expression)[k].norm,
                  inflected |-> get_morphemes(expression)[k].inflected,
                  at |-> k] : k \in 1..Len(expression)}]

\* Optional[set[Morpheme]]: set(morphs), or None after a KeyError
get_card_morphs(expression, am_filter) ==
    IF am_filter.morphemizer_name \in morphemizers_by_name
    THEN [none |-> FALSE, morphs |-> Range(get_morphemes(expression))]
    ELSE [none |-> TRUE, morphs |-> {}]

-----------------------------------------------------------------------------
(* ankimorphs.db *)

EmptyTables == [Cards |-> <<>>, Morphs |-> <<>>, Card_Morph_Map |-> <<>>]

\* one row per (norm, inflected); a conflict keeps the larger interval
RECURSIVE insert_many_into_morph_table(_, _)
insert_many_into_morph_table(Morphs, morph_list) ==
    IF morph_list = <<>> THEN Morphs
    ELSE LET row == Head(morph_list)
             at == {k \in 1..Len(Morphs) :
                       Morphs[k].norm = row.norm /\ Morphs[k].inflected = row.inflected}
             next == IF at = {} THEN Append(Morphs, row)
                     ELSE [k \in 1..Len(Morphs) |->
                             IF k \in at /\ Morphs[k].highest_learning_interval
                                              < row.highest_learning_interval
                             THEN row ELSE Morphs[k]]
         IN insert_many_into_morph_table(next, Tail(morph_list))

\* one row per card id
RECURSIVE insert_many_into_card_table(_, _)
insert_many_into_card_table(Cards, card_list) ==
    IF card_list = <<>> THEN Cards
    ELSE LET row == Head(card_list)
             next == IF \E k \in 1..Len(Cards) : Cards[k].card_id = row.card_id
                     THEN Cards ELSE Append(Cards, row)
         IN insert_many_into_card_table(next, Tail(card_list))

\* one row per (card id, norm, inflected)
RECURSIVE insert_many_into_card_morph_map_table(_, _)
insert_many_into_card_morph_map_table(Map, map_list) ==
    IF map_list = <<>> THEN Map
    ELSE LET row == Head(map_list)
             next == IF \E k \in 1..Len(Map) : Map[k] = row
                     THEN Map ELSE Append(Map, row)
         IN insert_many_into_card_morph_map_table(next, Tail(map_list))

-----------------------------------------------------------------------------
(* cache_anki_data *)

\* the loop before its first filter, the empty lists, the caches not yet read
NoLoop == [filter |-> 1, cards |-> <<>>, counter |-> 0]

NoTables == [card_table_data |-> <<>>, morph_table_data |-> <<>>,
             card_morph_map_table_data |-> <<>>]

NoCaches == [morph_cache |-> EmptyDict, card_morph_map_cache |-> EmptyDict,
             morph_priority |-> EmptyDict, end_of_queue |-> 0]

Raise(exception) ==
    /\ pc' = "failed"
    /\ error' = exception

\* the loop is at a card where the cancel flag is read
Checkpoint == loop.counter % CheckpointEvery = 0

\* raise CancelledRecalcException at a checkpoint
RaiseCancelled(where) ==
    /\ Raise("CancelledRecalcException")
    /\ hist' = [hist EXCEPT !.cancel_seen = where]

\* the lists emptied, the tables of the run before left in place
CacheBeginKeep ==
    /\ pc = "cache_anki_data"
    /\ tables' = NoTables
    /\ loop' = NoLoop
    /\ pc' = "cache_filter"
    /\ UNCHANGED <<harnessVars, colVars, am_config, am_db, error, want_cancel, progress,
                   outcome, caches, modified_cards, modified_notes, hist>>

\* drop_all_tables, create_all_tables, the empty lists
CacheBegin ==
    /\ pc = "cache_anki_data"
    /\ am_db' = EmptyTables
    /\ tables' = NoTables
    /\ loop' = NoLoop
    /\ pc' = "cache_filter"
    /\ UNCHANGED <<harnessVars, colVars, am_config, error, want_cancel, progress, outcome,
                   caches, modified_cards, modified_notes, hist>>

\* the head of the loop over the read filters
CacheFilter ==
    /\ pc = "cache_filter"
    /\ LET filters == get_read_enabled_filters IN
       IF loop.filter > Len(filters)
       THEN /\ pc' = "cache_save"
            /\ UNCHANGED <<loop, error>>
       ELSE LET config_filter == filters[loop.filter] IN
            IF config_filter.note_type = ""
            THEN /\ Raise("DefaultSettingsException")
                 /\ UNCHANGED loop
            ELSE LET card_data_dict ==
                         create_card_data_dict(config_filter,
                             config_filter.note_type_id, config_filter.tags,
                             am_config.parse_ignore_suspended_cards_content)
                 IN /\ IF card_data_dict = <<>>
                       THEN /\ loop' = [loop EXCEPT !.filter = @ + 1]
                            /\ pc' = "cache_filter"
                       ELSE /\ loop' = [loop EXCEPT !.cards = card_data_dict,
                                                    !.counter = 0]
                            /\ pc' = "cache_card"
                    /\ UNCHANGED error
    /\ UNCHANGED <<harnessVars, colVars, am_config, am_db, want_cancel, progress, outcome,
                   tables, caches, modified_cards, modified_notes, hist>>

\* the rows of a card with the interval of the card, the known tag not read
CacheRowsOwnInterval(config_filter, card_data, order) ==
    [card_table_data |->
        Append(tables.card_table_data,
               [card_id |-> card_data.card_id, note_id |-> card_data.note_id,
                note_type_id |-> config_filter.note_type_id,
                card_type |-> card_data.type, fields |-> card_data.fields,
                tags |-> card_data.tags]),
     morph_table_data |->
        tables.morph_table_data \o
        [k \in 1..Len(order) |->
            [norm |-> order[k].norm, inflected |-> order[k].inflected,
             highest_learning_interval |-> card_data.interval]],
     card_morph_map_table_data |->
        tables.card_morph_map_table_data \o
        [k \in 1..Len(order) |->
            [card_id |-> card_data.card_id, morph_norm |-> order[k].norm,
             morph_inflected |-> order[k].inflected]]]

\* the rows one card adds to the three lists, its morphs iterated in `order`
CacheRows(config_filter, card_data, order) ==
    LET highest_interval == IF card_data.known_tag
                            THEN recalc_interval_for_known
                            ELSE card_data.interval
    IN [card_table_data |->
            Append(tables.card_table_data,
                   [card_id |-> card_data.card_id, note_id |-> card_data.note_id,
                    note_type_id |-> config_filter.note_type_id,
                    card_type |-> card_data.type, fields |-> card_data.fields,
                    tags |-> card_data.tags]),
        morph_table_data |->
            tables.morph_table_data \o
            [k \in 1..Len(order) |->
                [norm |-> order[k].norm, inflected |-> order[k].inflected,
                 highest_learning_interval |-> highest_interval]],
        card_morph_map_table_data |->
            tables.card_morph_map_table_data \o
            [k \in 1..Len(order) |->
                [card_id |-> card_data.card_id, morph_norm |-> order[k].norm,
                 morph_inflected |-> order[k].inflected]]]

\* the checkpoint of the caching loop sees the cancel flag
CacheCancelled ==
    /\ pc = "cache_card"
    /\ Checkpoint /\ want_cancel
    /\ RaiseCancelled("cache")
    /\ UNCHANGED <<harnessVars, colVars, am_config, am_db, want_cancel, progress, outcome,
                   loop, tables, caches, modified_cards, modified_notes>>

\* one pass of the loop over the cards of a read filter
CacheCard ==
    /\ pc = "cache_card"
    /\ ~(Checkpoint /\ want_cancel)
    /\ LET config_filter == get_read_enabled_filters[loop.filter]
           card_data == loop.cards[loop.counter + 1]
           morphs == get_card_morphs(card_data.expression, config_filter)
       IN /\ \E order \in IF morphs.none THEN {<<>>} ELSE Orders(morphs.morphs) :
                 tables' = CacheRows(config_filter, card_data, order)
          /\ IF loop.counter + 1 < Len(loop.cards)
             THEN /\ loop' = [loop EXCEPT !.counter = @ + 1]
                  /\ pc' = "cache_card"
             ELSE /\ loop' = [loop EXCEPT !.filter = @ + 1]
                  /\ pc' = "cache_filter"
    /\ UNCHANGED <<harnessVars, colVars, am_config, am_db, error, want_cancel, progress,
                   outcome, caches, modified_cards, modified_notes, hist>>

\* the three inserts that end cache_anki_data
CacheSave ==
    /\ pc = "cache_save"
    /\ am_db' = [Cards |-> insert_many_into_card_table(am_db.Cards,
                               tables.card_table_data),
                 Morphs |-> insert_many_into_morph_table(am_db.Morphs,
                               tables.morph_table_data),
                 Card_Morph_Map |-> insert_many_into_card_morph_map_table(
                               am_db.Card_Morph_Map,
                               tables.card_morph_map_table_data)]
    /\ pc' = "update_cards"
    /\ UNCHANGED <<harnessVars, colVars, am_config, error, want_cancel, progress, outcome,
                   loop, tables, caches, modified_cards, modified_notes, hist>>

-----------------------------------------------------------------------------
(* update_cards: what it reads from ankimorphs.db *)

DictSet(d, k, v) == [x \in DOMAIN d \cup {k} |-> IF x = k THEN v ELSE d[x]]

RECURSIVE get_morph_cache_loop(_, _)
get_morph_cache_loop(morphs_raw, morph_cache) ==
    IF morphs_raw = <<>> THEN morph_cache
    ELSE LET row == Head(morphs_raw) IN
         get_morph_cache_loop(Tail(morphs_raw),
             DictSet(morph_cache, row.norm \o row.inflected,
                     row.highest_learning_interval))

get_morph_cache(Morphs) == get_morph_cache_loop(Morphs, EmptyDict)

\* st is [cache, card_id_outer]: a row whose card id differs from the row
\* before it starts a new list for its card
RECURSIVE get_card_morph_map_cache_loop(_, _)
get_card_morph_map_cache_loop(rows, st) ==
    IF rows = <<>> THEN st.cache
    ELSE LET row == Head(rows)
             morph == MorphDict(row.morph_norm, row.morph_inflected)
             cache == IF st.outer # <<row.card_id>>
                      THEN DictSet(st.cache, row.card_id, <<morph>>)
                      ELSE DictSet(st.cache, row.card_id,
                                   Append(st.cache[row.card_id], morph))
         IN get_card_morph_map_cache_loop(Tail(rows),
                [cache |-> cache, outer |-> <<row.card_id>>])

get_card_morph_map_cache(Map) ==
    get_card_morph_map_cache_loop(Map, [cache |-> EmptyDict, outer |-> <<>>])

\* the keys of a list in the order they are first seen (Counter's order)
RECURSIVE FirstSeen(_, _)
FirstSeen(list, seen) ==
    IF list = <<>> THEN seen
    ELSE FirstSeen(Tail(list),
                   IF Head(list) \in Range(seen) THEN seen ELSE Append(seen, Head(list)))

CountOf(list, key) == Cardinality({k \in 1..Len(list) : list[k] = key})

\* sorted(..., key=count, reverse=True): stable
RECURSIVE InsertByCount(_, _, _)
InsertByCount(key, sorted, list) ==
    IF sorted = <<>> THEN <<key>>
    ELSE IF CountOf(list, Head(sorted)) >= CountOf(list, key)
         THEN <<Head(sorted)>> \o InsertByCount(key, Tail(sorted), list)
         ELSE <<key>> \o sorted

\* the keys left in the order they were first seen
SortNone(keys, list) == keys

RECURSIVE SortByCount(_, _)
SortByCount(keys, list) ==
    IF keys = <<>> THEN <<>>
    ELSE InsertByCount(keys[Len(keys)],
                       SortByCount(SubSeq(keys, 1, Len(keys) - 1), list), list)

get_morph_collection_priority(Map) ==
    LET temp_list == [k \in 1..Len(Map) |-> Map[k].morph_norm \o Map[k].morph_inflected]
        sorted == SortByCount(FirstSeen(temp_list, <<>>), temp_list)
    IN [key \in Range(sorted) |->
           (CHOOSE index \in 1..Len(sorted) : sorted[index] = key) - 1]

get_morph_priority(Map, recalc_prioritize_collection) ==
    IF recalc_prioritize_collection THEN get_morph_collection_priority(Map)
    ELSE EmptyDict

\* SELECT card_id ... FROM Cards WHERE note_type_id = ?
get_am_cards_data_dict(Cards, note_type_id) ==
    LET rows == SelectSeq(Cards, LAMBDA row : row.note_type_id = note_type_id)
    IN [k \in 1..Len(rows) |-> rows[k].card_id]

\* select count() from cards where type = 0
count_new_cards == Cardinality({c \in DOMAIN col_cards :
                                   col_cards[c].type = CARD_TYPE_NEW})

-----------------------------------------------------------------------------
(* update_cards: what it writes into the note *)

DigitChar(d) == <<"0", "1", "2", "3", "4", "5", "6", "7", "8", "9">>[d + 1]

\* str(n) for n >= 0
RECURSIVE str(_)
str(n) == IF n < 10 THEN <<DigitChar(n)>>
          ELSE str(n \div 10) \o <<DigitChar(n % 10)>>

\* the joined string with its last separator left in place
focus_morph_string_untrimmed(unknowns) ==
    Concat([k \in 1..Len(unknowns) |-> unknowns[k] \o <<",", " ">>])

\* "".join(f"{unknown}, " for unknown in unknowns)[:-2]
focus_morph_string(unknowns) ==
    LET joined == Concat([k \in 1..Len(unknowns) |-> unknowns[k] \o <<",", " ">>])
    IN SubSeq(joined, 1, Len(joined) - 2)

\* an index of 0 stands for a field that is not designated
update_focus_morph_field(config_filter, fields, unknowns) ==
    IF config_filter.focus_morph_field_index > 0
    THEN [fields EXCEPT ![config_filter.focus_morph_field_index] =
             focus_morph_string(unknowns)]
    ELSE fields

update_difficulty_field(config_filter, fields, difficulty) ==
    IF config_filter.difficulty_field_index > 0
    THEN [fields EXCEPT ![config_filter.difficulty_field_index] = str(difficulty)]
    ELSE fields

update_highlighted_field(config_filter, card_morph_map_cache, morph_cache, card_id, fields) ==
    IF card_id \notin DOMAIN card_morph_map_cache THEN fields
    ELSE IF config_filter.highlighted_field_index > 0
         THEN [fields EXCEPT ![config_filter.highlighted_field_index] =
                  highlight_text(card_morph_map_cache[card_id], morph_cache,
                                 fields[config_filter.field_index + 1])]
         ELSE fields

-----------------------------------------------------------------------------
(* update_cards: the unique due *)

\* modified_cards.sort(key=due): stable
RECURSIVE InsertByDue(_, _)
InsertByDue(card, sorted) ==
    IF sorted = <<>> THEN <<card>>
    ELSE IF Head(sorted).due <= card.due
         THEN <<Head(sorted)>> \o InsertByDue(card, Tail(sorted))
         ELSE <<card>> \o sorted

\* the list left in the order of processing
sort_kept(cards) == cards

RECURSIVE sort_by_due(_)
sort_by_due(cards) ==
    IF cards = <<>> THEN <<>>
    ELSE InsertByDue(cards[Len(cards)], sort_by_due(SubSeq(cards, 1, Len(cards) - 1)))

\* enumerate(...) that starts at 0 and not at the end of the queue
unique_due_from_zero(sorted_cards, end_of_queue) ==
    [k \in 1..Len(sorted_cards) |->
        IF sorted_cards[k].type = CARD_TYPE_NEW
        THEN [sorted_cards[k] EXCEPT !.due = k - 1]
        ELSE sorted_cards[k]]

\* the index given to every card of the list, whatever its type
unique_due_any_type(sorted_cards, end_of_queue) ==
    [k \in 1..Len(sorted_cards) |->
        [sorted_cards[k] EXCEPT !.due = end_of_queue + k - 1]]

\* for index, card in enumerate(modified_cards, start=end_of_queue)
unique_due(sorted_cards, end_of_queue) ==
    [k \in 1..Len(sorted_cards) |->
        IF sorted_cards[k].type = CARD_TYPE_NEW
        THEN [sorted_cards[k] EXCEPT !.due = end_of_queue + k - 1]
        ELSE sorted_cards[k]]

\* mw.col.update_cards: the cards written in the order of the list
RECURSIVE col_update_cards(_, _)
col_update_cards(cards, list) ==
    IF list = <<>> THEN cards
    ELSE col_update_cards(
             [cards EXCEPT ![Head(list).id].due = Head(list).due], Tail(list))

\* mw.col.update_notes: the notes written in the order of the list
RECURSIVE col_update_notes(_, _)
col_update_notes(notes, list) ==
    IF list = <<>> THEN notes
    ELSE col_update_notes(
             [notes EXCEPT ![Head(list).id].fields = Head(list).fields,
                           ![Head(list).id].tags = Head(list).tags], Tail(list))

-----------------------------------------------------------------------------
(* update_cards *)

\* the reads from ankimorphs.db and the count of new cards
UpdateBegin ==
    /\ pc = "update_cards"
    /\ caches' = [morph_cache |-> get_morph_cache(am_db.Morphs),
                  card_morph_map_cache |->
                      get_card_morph_map_cache(am_db.Card_Morph_Map),
                  morph_priority |->
                      get_morph_priority(am_db.Card_Morph_Map,
                          am_config.recalc_prioritize_collection),
                  end_of_queue |-> count_new_cards]
    /\ modified_cards' = <<>>
    /\ modified_notes' = <<>>
    /\ loop' = NoLoop
    /\ pc' = "update_filter"
    /\ UNCHANGED <<harnessVars, colVars, am_config, am_db, error, want_cancel, progress,
                   outcome, tables, hist>>

\* the head of the loop over the modify filters
UpdateFilter ==
    /\ pc = "update_filter"
    /\ LET filters == get_modify_enabled_filters IN
       IF loop.filter > Len(filters)
       THEN /\ pc' = "unique_due"
            /\ UNCHANGED <<loop, error>>
       ELSE LET config_filter == filters[loop.filter] IN
            IF config_filter.note_type_id = 0
            THEN /\ Raise("AssertionError")
                 /\ UNCHANGED loop
            ELSE LET cards_data_map ==
                         get_am_cards_data_dict(am_db.Cards, config_filter.note_type_id)
                 IN /\ IF cards_data_map = <<>>
                       THEN /\ loop' = [loop EXCEPT !.filter = @ + 1]
                            /\ pc' = "update_filter"
                       ELSE /\ loop' = [loop EXCEPT !.cards = cards_data_map,
                                                    !.counter = 0]
                            /\ pc' = "update_card"
                    /\ UNCHANGED error
    /\ UNCHANGED <<harnessVars, colVars, am_config, am_db, want_cancel, progress, outcome,
                   tables, caches, modified_cards, modified_notes, hist>>

\* a cancellation seen in the updating loop ends the loop and goes on
UpdateCancelledBreak ==
    /\ pc = "update_card"
    /\ Checkpoint /\ want_cancel
    /\ pc' = "unique_due"
    /\ hist' = [hist EXCEPT !.cancel_seen = "update"]
    /\ UNCHANGED <<harnessVars, colVars, am_config, am_db, error, want_cancel, progress,
                   outcome, loop, tables, caches, modified_cards, modified_notes>>

\* the checkpoint of the updating loop sees the cancel flag
UpdateCancelled ==
    /\ pc = "update_card"
    /\ Checkpoint /\ want_cancel
    /\ RaiseCancelled("update")
    /\ UNCHANGED <<harnessVars, colVars, am_config, am_db, want_cancel, progress, outcome,
                   loop, tables, caches, modified_cards, modified_notes>>

\* one pass of the loop over the cached cards of a modify filter
UpdateCard ==
    /\ pc = "update_card"
    /\ ~(Checkpoint /\ want_cancel)
    /\ LET config_filter == get_modify_enabled_filters[loop.filter]
           card_id == loop.cards[loop.counter + 1]
           card == col_cards[card_id]
           note == col_notes[card.nid]
           scored == get_card_difficulty_and_unknowns(am_config.skip_stale_cards,
                         card_id, caches.card_morph_map_cache, caches.morph_cache,
                         caches.morph_priority)
           is_new == card.type = CARD_TYPE_NEW
           due == IF is_new THEN scored.difficulty ELSE card.due
           fields1 == IF is_new
                      THEN update_difficulty_field(config_filter,
                               update_focus_morph_field(config_filter, note.fields,
                                                        scored.unknowns),
                               scored.difficulty)
                      ELSE note.fields
           tags1 == IF is_new THEN update_tags(note.tags, Len(scored.unknowns))
                    ELSE note.tags
           fields2 == update_highlighted_field(config_filter,
                          caches.card_morph_map_cache, caches.morph_cache,
                          card_id, fields1)
       IN IF is_new /\ scored.raised # ""
          THEN /\ Raise(scored.raised)
               /\ UNCHANGED <<loop, modified_cards, modified_notes>>
          ELSE /\ modified_cards' = Append(modified_cards,
                       [id |-> card_id, type |-> card.type, due |-> due])
               /\ modified_notes' = Append(modified_notes,
                       [id |-> card.nid, fields |-> fields2, tags |-> tags1])
               /\ IF loop.counter + 1 < Len(loop.cards)
                  THEN /\ loop' = [loop EXCEPT !.counter = @ + 1]
                       /\ pc' = "update_card"
                  ELSE /\ loop' = [loop EXCEPT !.filter = @ + 1]
                       /\ pc' = "update_filter"
               /\ UNCHANGED error
    /\ UNCHANGED <<harnessVars, colVars, am_config, am_db, want_cancel, progress, outcome,
                   tables, caches, hist>>

\* the sort without the new dues: the pending dues go on to the commit
UniqueDueSortOnly ==
    /\ pc = "unique_due"
    /\ modified_cards' = sort_by_due(modified_cards)
    /\ pc' = "col_update_cards"
    /\ UNCHANGED <<harnessVars, colVars, am_config, am_db, error, want_cancel, progress,
                   outcome, loop, tables, caches, modified_notes, hist>>

\* the sort and the new due of every new card
UniqueDue ==
    /\ pc = "unique_due"
    /\ modified_cards' = unique_due(sort_by_due(modified_cards), caches.end_of_queue)
    /\ pc' = "col_update_cards"
    /\ UNCHANGED <<harnessVars, colVars, am_config, am_db, error, want_cancel, progress,
                   outcome, loop, tables, caches, modified_notes, hist>>

ColUpdateCards ==
    /\ pc = "col_update_cards"
    /\ col_cards' = col_update_cards(col_cards, modified_cards)
    /\ pc' = "col_update_notes"
    /\ UNCHANGED <<harnessVars, col_notes, am_config, am_db, error, want_cancel, progress,
                   outcome, loop, tables, caches, modified_cards, modified_notes,
                   hist>>

ColUpdateNotes ==
    /\ pc = "col_update_notes"
    /\ col_notes' = col_update_notes(col_notes, modified_notes)
    /\ pc' = "succeeded"
    /\ UNCHANGED <<harnessVars, col_cards, am_config, am_db, error, want_cancel, progress,
                   outcome, loop, tables, caches, modified_cards, modified_notes,
                   hist>>

-----------------------------------------------------------------------------
(* recalc, its callbacks, and the user *)

\* recalc(): the progress indicator starts, the background operation is queued
Recalc ==
    /\ pc = "idle"
    /\ hist.runs < MaxRuns
    /\ progress' = TRUE
    /\ want_cancel' = FALSE
    /\ error' = ""
    /\ pc' = "cache_anki_data"
    /\ hist' = [hist EXCEPT !.cards = col_cards, !.notes = col_notes,
                            !.db = am_db, !.cancel_seen = "", !.runs = @ + 1]
    /\ UNCHANGED <<harnessVars, colVars, am_config, am_db, outcome, loop, tables,
                   caches, modified_cards, modified_notes>>

\* the locals of the background operation are gone once it has ended
LocalsGone ==
    /\ loop' = NoLoop
    /\ tables' = NoTables
    /\ caches' = NoCaches
    /\ modified_cards' = <<>>
    /\ modified_notes' = <<>>
    /\ want_cancel' = FALSE

on_success ==
    /\ pc = "succeeded"
    /\ progress' = FALSE
    /\ outcome' = "Finished Recalc"
    /\ pc' = "idle"
    /\ LocalsGone
    /\ hist' = [hist EXCEPT !.has_last = TRUE, !.last_cards = col_cards,
                            !.last_notes = col_notes, !.quiet = TRUE,
                            !.last_map = am_db.Card_Morph_Map,
                            !.cards = col_cards, !.notes = col_notes,
                            !.db = am_db, !.cancel_seen = ""]
    /\ UNCHANGED <<harnessVars, colVars, am_config, am_db, error>>

\* the error raised again before the progress indicator is finished
on_failure_raise_first ==
    /\ pc = "failed"
    /\ progress' = (error \notin {"DefaultSettingsException",
                                  "CancelledRecalcException"})
    /\ outcome' = IF error = "DefaultSettingsException"
                  THEN "Save settings before using Recalc!"
                  ELSE IF error = "CancelledRecalcException"
                  THEN "Cancelled Recalc"
                  ELSE "raise"
    /\ pc' = "idle"
    /\ LocalsGone
    /\ hist' = [hist EXCEPT !.cards = col_cards, !.notes = col_notes,
                            !.db = am_db, !.cancel_seen = ""]
    /\ UNCHANGED <<harnessVars, colVars, am_config, am_db, error>>

on_failure ==
    /\ pc = "failed"
    /\ progress' = FALSE
    /\ outcome' = IF error = "DefaultSettingsException"
                  THEN "Save settings before using Recalc!"
                  ELSE IF error = "CancelledRecalcException"
                  THEN "Cancelled Recalc"
                  ELSE "raise"
    /\ pc' = "idle"
    /\ LocalsGone
    /\ hist' = [hist EXCEPT !.cards = col_cards, !.notes = col_notes,
                            !.db = am_db, !.cancel_seen = ""]
    /\ UNCHANGED <<harnessVars, colVars, am_config, am_db, error>>

\* the user clicks 'x' on the progress indicator
Cancel ==
    /\ progress
    /\ pc \notin {"idle", "succeeded", "failed"}
    /\ ~want_cancel
    /\ want_cancel' = TRUE
    /\ UNCHANGED <<harnessVars, colVars, am_config, am_db, pc, error, progress, outcome, loop,
                   tables, caches, modified_cards, modified_notes, hist>>

ReviewIvl == 5

ReviewDue == 7

\* the user answers a card between two runs: it is a review card from then on
Review(card_id) ==
    /\ pc = "idle"
    /\ hist.reviews < MaxReviews
    /\ col_cards[card_id].ivl < ReviewIvl
    /\ col_cards' = [col_cards EXCEPT ![card_id].type = CARD_TYPE_REV,
                                      ![card_id].ivl = ReviewIvl,
                                      ![card_id].due = ReviewDue]
    /\ hist' = [hist EXCEPT !.reviews = @ + 1, !.quiet = FALSE]
    /\ UNCHANGED <<harnessVars, col_notes, am_config, am_db, runVars>>

-----------------------------------------------------------------------------
(* The collections and configurations the operation is run on *)

BasicId == 1

ClozeId == 2

\* a filter with all three output fields designated, or none
Filter(note_type, note_type_id, tags, outputs) ==
    [note_type |-> note_type, note_type_id |-> note_type_id, tags |-> tags,
     read |-> TRUE, modify |-> TRUE, field_index |-> 0,
     morphemizer_name |-> "CharacterMorphemizer",
     focus_morph_field_index |-> IF outputs THEN 2 ELSE 0,
     difficulty_field_index |-> IF outputs THEN 3 ELSE 0,
     highlighted_field_index |-> IF outputs THEN 4 ELSE 0]

Config(filters, prioritize, skip_stale, ignore_suspended) ==
    [filters |-> filters, recalc_prioritize_collection |-> prioritize,
     skip_stale_cards |-> skip_stale,
     parse_ignore_suspended_cards_content |-> ignore_suspended]

FBasic == Filter("Basic", BasicId, <<"">>, TRUE)

FCloze == Filter("Cloze", ClozeId, <<"">>, TRUE)

FTagged == Filter("Basic", BasicId, <<"user">>, FALSE)

FUnset == Filter("", 0, <<"">>, FALSE)

Configs ==
    {Config(<<FBasic>>, TRUE, FALSE, FALSE),
     Config(<<FBasic, FCloze>>, TRUE, TRUE, FALSE),
     Config(<<FBasic, FCloze>>, TRUE, FALSE, FALSE),
     Config(<<FBasic, FUnset>>, TRUE, FALSE, FALSE),
     Config(<<FBasic>>, FALSE, FALSE, FALSE),
     Config(<<FTagged>>, TRUE, FALSE, TRUE)}

NoteOf(mid, expression, tags) ==
    [mid |-> mid, fields |-> <<expression, <<>>, <<>>, <<>>>>, tags |-> tags]

CardOf(nid, type, ivl, due, queue) ==
    [nid |-> nid, type |-> type, ivl |-> ivl, due |-> due, queue |-> queue]

\* card 1: a new card of the Basic note type
Cards1 == {CardOf(1, CARD_TYPE_NEW, 0, 1, 0)}

Notes1 == {NoteOf(BasicId, <<"a">>, <<"user">>),
           NoteOf(BasicId, <<"a", "b">>, <<"user", tag_not_ready>>),
           NoteOf(BasicId, <<>>, <<"user">>)}

\* card 2 and its note: a Basic card that is new, or in review, or in review
\* and suspended; or a second new card of note 1, note 2 having no card
CardNotes2 ==
    {<<CardOf(2, CARD_TYPE_NEW, 0, 2, 0), NoteOf(BasicId, <<"a">>, <<"user">>)>>,
     <<CardOf(1, CARD_TYPE_NEW, 0, 2, 0), NoteOf(BasicId, <<"a">>, <<"user">>)>>,
     <<CardOf(2, CARD_TYPE_REV, 5, 7, 0), NoteOf(BasicId, <<"b", "a">>, <<"user">>)>>,
     <<CardOf(2, CARD_TYPE_REV, 30, 7, 0), NoteOf(BasicId, <<"a">>, <<"user">>)>>,
     <<CardOf(2, CARD_TYPE_REV, 5, 7, QUEUE_SUSPENDED),
       NoteOf(BasicId, <<"b", "a">>, <<"user">>)>>}

\* card 3: a new card of the Cloze note type, added after other cards: its
\* place in the new queue is past the number of new cards
Cards3 == {CardOf(3, CARD_TYPE_NEW, 0, 4, 0)}

Notes3 == {NoteOf(ClozeId, <<"b">>, <<>>)}

\* the cache file as an earlier session left it, for a card since deleted
StaleTables ==
    [Cards |-> <<[card_id |-> 9, note_id |-> 9, note_type_id |-> BasicId,
                  card_type |-> CARD_TYPE_NEW, fields |-> <<<<"b">>, <<>>, <<>>, <<>>>>,
                  tags |-> <<>>]>>,
     Morphs |-> <<[norm |-> <<"b">>, inflected |-> <<"b">>,
                   highest_learning_interval |-> 0]>>,
     Card_Morph_Map |-> <<[card_id |-> 9, morph_norm |-> <<"b">>,
                           morph_inflected |-> <<"b">>]>>]

Init ==
    /\ \E c1 \in Cards1, n1 \in Notes1, cn2 \in CardNotes2, c3 \in Cards3,
          n3 \in Notes3 :
          /\ col_cards = <<c1, cn2[1], c3>>
          /\ col_notes = <<n1, cn2[2], n3>>
    /\ am_config \in Configs
    /\ am_db = StaleTables
    /\ pc = "idle" /\ error = "" /\ want_cancel = FALSE /\ progress = FALSE
    /\ outcome = ""
    /\ loop = NoLoop
    /\ tables = NoTables
    /\ caches = NoCaches
    /\ modified_cards = <<>> /\ modified_notes = <<>>
    /\ hist = [cards |-> col_cards, notes |-> col_notes, db |-> am_db,
               cancel_seen |-> "", has_last |-> FALSE, last_cards |-> col_cards,
               last_notes |-> col_notes, last_map |-> <<>>, quiet |-> TRUE, reviews |-> 0, runs |-> 0]
    /\ HLIdle /\ SCIdle /\ TGIdle /\ CPIdle /\ UIIdle

Next ==
    \/ Recalc
    \/ CacheBegin
    \/ CacheFilter
    \/ CacheCancelled
    \/ CacheCard
    \/ CacheSave
    \/ UpdateBegin
    \/ UpdateFilter
    \/ UpdateCancelled
    \/ UpdateCard
    \/ UniqueDue
    \/ ColUpdateCards
    \/ ColUpdateNotes
    \/ on_success
    \/ on_failure
    \/ Cancel
    \/ \E card_id \in DOMAIN col_cards : Review(card_id)

Spec == Init /\ [][Next]_vars

-----------------------------------------------------------------------------
(* Claims about the Recalc operation *)

\* the cards of the run's list, and those of them that are new
Processed == {modified_cards[k].id : k \in 1..Len(modified_cards)}

ProcessedNew == {modified_cards[k].id :
                    k \in {j \in 1..Len(modified_cards) :
                              modified_cards[j].type = CARD_TYPE_NEW}}

\* C1 as stated: after a run the dues written for the processed new cards are
\* pairwise distinct, and each is greater than the due of every new card the
\* run did not process.
C1_UniqueAndPastUntouched ==
    pc = "succeeded" =>
        /\ \A c \in ProcessedNew, d \in ProcessedNew :
              c # d => col_cards[c].due # col_cards[d].due
        /\ \A c \in ProcessedNew, u \in DOMAIN col_cards \ Processed :
              col_cards[u].type = CARD_TYPE_NEW
                  => col_cards[c].due > col_cards[u].due

\* a highlighted text with every span of status learning read as known
AsKnown(text) ==
    [k \in 1..Len(text) |->
        IF text[k] = OpenTag("learning") THEN OpenTag("known") ELSE text[k]]

HighlightedField == 4

\* a second run in succession has ended: the run before it succeeded and no
\* card was reviewed since
SecondRunEnded == pc = "succeeded" /\ hist.has_last /\ hist.quiet

\* C2 as stated: a second run in succession leaves every due, every tag list
\* and every highlighted field as the first run left them.
C2_SecondRunIdentical ==
    SecondRunEnded =>
        /\ \A c \in DOMAIN col_cards : col_cards[c].due = hist.last_cards[c].due
        /\ \A n \in DOMAIN col_notes :
              /\ col_notes[n].tags = hist.last_notes[n].tags
              /\ col_notes[n].fields[HighlightedField]
                    = hist.last_notes[n].fields[HighlightedField]

\* C2 amended: a second run in succession leaves every note's tags as the
\* first run left them; when it iterates each card's morphemes in the order
\* the first run did, it also leaves every due unchanged, and a highlighted
\* field changes at most in spans of status learning that become known.
C2_SecondRunSameTagsAndKeys ==
    SecondRunEnded =>
        /\ \A n \in DOMAIN col_notes : col_notes[n].tags = hist.last_notes[n].tags
        /\ am_db.Card_Morph_Map = hist.last_map =>
              /\ \A c \in DOMAIN col_cards :
                    col_cards[c].due = hist.last_cards[c].due
              /\ \A n \in DOMAIN col_notes :
                    AsKnown(col_notes[n].fields[HighlightedField])
                       = AsKnown(hist.last_notes[n].fields[HighlightedField])

\* C2 witness: the second run rewrote a highlighted field, in the same order
\* of morphemes, for a note the first run had tagged known.
C2_Witness ==
    /\ SecondRunEnded
    /\ am_db.Card_Morph_Map = hist.last_map
    /\ \E n \in DOMAIN col_notes :
          /\ tag_known \in Range(col_notes[n].tags)
          /\ col_notes[n].fields[HighlightedField]
                # hist.last_notes[n].fields[HighlightedField]

\* C7 as stated: a run that ends with the configuration error has changed
\* neither the cache tables nor any card or note of the collection.
C7_ConfigErrorChangesNothing ==
    (pc = "failed" /\ error = "DefaultSettingsException") =>
        /\ am_db = hist.db
        /\ col_cards = hist.cards
        /\ col_notes = hist.notes

\* C8: a run in which a cancellation is seen ends as cancelled with no card
\* or note of the collection changed, and, seen in the caching loop, with
\* nothing inserted into the cache tables.
C8_CancelledCommitsNothing ==
    hist.cancel_seen # "" =>
        /\ pc = "failed"
        /\ error = "CancelledRecalcException"
        /\ col_cards = hist.cards
        /\ col_notes = hist.notes
        /\ hist.cancel_seen = "cache" => am_db = EmptyTables

\* C8 witness: the cancellation is seen in the updating loop when a card of
\* an earlier filter already has a new due pending.
C8_Witness ==
    /\ hist.cancel_seen = "update"
    /\ \E k \in 1..Len(modified_cards) :
          modified_cards[k].due # col_cards[modified_cards[k].id].due

NewPositions == {k \in 1..Len(modified_cards) :
                    modified_cards[k].type = CARD_TYPE_NEW}

\* C9 as stated: the dues of the recalculated new cards are exactly the
\* consecutive integers from the number of new cards on.
C9_ConsecutiveFromEndOfQueue ==
    pc = "succeeded" =>
        {col_cards[modified_cards[k].id].due : k \in NewPositions}
            = count_new_cards .. (count_new_cards + Cardinality(NewPositions) - 1)

\* C9 amended: the due of a recalculated new card is the number of new cards
\* plus its position (from 0) in the sorted list of all modified cards, new
\* or not: the dues increase along the list, and two new cards differ by
\* their distance in that list, cards of other types counted.
C9_DueIsEndOfQueuePlusPosition ==
    pc = "succeeded" =>
        \A k \in NewPositions :
            col_cards[modified_cards[k].id].due = count_new_cards + k - 1

\* C9 witness: a review card is sorted before a new card.
C9_Witness ==
    /\ pc = "succeeded"
    /\ Len(modified_cards) = 2
    /\ modified_cards[1].type = CARD_TYPE_REV
    /\ modified_cards[2].type = CARD_TYPE_NEW

\* the cards of the list that have no row in Card_Morph_Map
NoMorphPositions ==
    {k \in 1..Len(modified_cards) :
        modified_cards[k].id \notin DOMAIN caches.card_morph_map_cache}

\* the loop of update_cards is running, or has just ended: the list holds
\* the pending dues, in the order of processing
Pending == pc \in {"update_filter", "update_card", "unique_due"}

\* C12: a cached card without rows in Card_Morph_Map gets, when new, the
\* pending due 2147483647 and an empty focus-morph field; its highlighted
\* field is left as it was; no run fails with KeyError at such a card; and a
\* run that succeeds has processed every cached card of its filters and has
\* written the dues of its list into the collection.
C12_NoMorphsCardIsSkippedOver ==
    /\ Pending =>
          \A k \in NoMorphPositions :
              /\ modified_cards[k].type = CARD_TYPE_NEW =>
                    /\ modified_cards[k].due = 2147483647
                    /\ modified_notes[k].fields[2] = <<>>
              /\ modified_notes[k].fields[HighlightedField]
                    = col_notes[modified_notes[k].id].fields[HighlightedField]
    /\ (pc = "failed" /\ error = "KeyError") =>
          loop.cards[loop.counter + 1] \in DOMAIN caches.card_morph_map_cache
    /\ (pc = "succeeded" /\ NoMorphPositions # {}) =>
          /\ \A r \in Range(am_db.Cards) :
                (\E f \in Range(get_modify_enabled_filters) :
                     f.note_type_id = r.note_type_id)
                   => r.card_id \in Processed
          /\ \A k \in 1..Len(modified_cards) :
                col_cards[modified_cards[k].id].due = modified_cards[k].due

\* C12 witness: a run succeeds in which the first card processed is a new
\* card without rows in Card_Morph_Map, given the last place of the list,
\* and two more cards were processed after it.
C12_Witness ==
    /\ pc = "succeeded"
    /\ Len(modified_cards) = 3
    /\ modified_cards[3].id = 1
    /\ modified_cards[3].type = CARD_TYPE_NEW
    /\ 3 \in NoMorphPositions
    /\ modified_notes[1].id = col_cards[1].nid

\* the number of morphs of a cached card whose interval in morph_cache is 0
UnknownCount(card_id) ==
    LET card_morphs == caches.card_morph_map_cache[card_id] IN
    Cardinality({i \in 1..Len(card_morphs) :
                    caches.morph_cache[card_morphs[i].entire_morph] = 0})

RECURSIVE PrioritySum(_)
PrioritySum(card_morphs) ==
    IF card_morphs = <<>> THEN 0
    ELSE caches.morph_priority[Head(card_morphs).entire_morph]
           + PrioritySum(Tail(card_morphs))

\* the new cards of the list that have morphs, none of them unknown
StalePositions ==
    {k \in NewPositions \ NoMorphPositions :
        UnknownCount(modified_cards[k].id) = 0}

\* C13: with skip_stale_cards on, a new card with morphemes and no unknown
\* one gets the pending due 2147483647, and after the run its due is
\* greater than that of every processed new card with an unknown morpheme;
\* with the option off, its pending due is the sum of the ranks of its
\* morphemes (at most 499999).
C13_StaleCardsLast ==
    /\ Pending =>
          \A k \in StalePositions :
              modified_cards[k].due =
                  IF am_config.skip_stale_cards THEN 2147483647
                  ELSE Min(PrioritySum(caches.card_morph_map_cache[
                                          modified_cards[k].id]), 499999)
    /\ (pc = "succeeded" /\ am_config.skip_stale_cards) =>
          \A k \in StalePositions, j \in NewPositions \ NoMorphPositions :
              UnknownCount(modified_cards[j].id) > 0
                 => col_cards[modified_cards[k].id].due
                       > col_cards[modified_cards[j].id].due

\* C13 witness: with the option on, a run succeeds in which a new card
\* without unknowns was processed before a new card with an unknown.
C13_Witness ==
    /\ pc = "succeeded" /\ am_config.skip_stale_cards
    /\ \E k \in StalePositions, j \in NewPositions \ NoMorphPositions :
          /\ UnknownCount(modified_cards[j].id) > 0
          /\ modified_cards[k].id < modified_cards[j].id

\* update_cards has read its caches from ankimorphs.db
CachesRead ==
    pc \in {"update_filter", "update_card", "unique_due", "col_update_cards",
            "col_update_notes", "succeeded"}

\* the (norm, inflected) pairs of the rows of Card_Morph_Map, the number of
\* rows of a pair, and the entry of a pair in a dict
MapPairs == {<<r.morph_norm, r.morph_inflected>> : r \in Range(am_db.Card_Morph_Map)}

RowsOf(p) ==
    Cardinality({k \in 1..Len(am_db.Card_Morph_Map) :
                    /\ am_db.Card_Morph_Map[k].morph_norm = p[1]
                    /\ am_db.Card_Morph_Map[k].morph_inflected = p[2]})

KeyOf(p) == p[1] \o p[2]

\* C14: the priority map read from Card_Morph_Map has an entry for exactly
\* the morphemes of its rows, the ranks are the numbers 0..n-1, each once,
\* and a morpheme with strictly more rows than another has a strictly
\* smaller rank.
C14_RanksByFrequency ==
    (CachesRead /\ am_config.recalc_prioritize_collection) =>
        /\ DOMAIN caches.morph_priority = {KeyOf(p) : p \in MapPairs}
        /\ {caches.morph_priority[KeyOf(p)] : p \in MapPairs}
              = 0 .. (Cardinality(MapPairs) - 1)
        /\ \A p \in MapPairs, q \in MapPairs :
              RowsOf(p) > RowsOf(q)
                 => caches.morph_priority[KeyOf(p)] < caches.morph_priority[KeyOf(q)]

\* C14 witness: the morpheme of the first row has fewer rows than a
\* morpheme first seen after it, and the later one has rank 0.
C14_Witness ==
    /\ CachesRead /\ am_config.recalc_prioritize_collection
    /\ \E p \in MapPairs, q \in MapPairs :
          /\ am_db.Card_Morph_Map[1].morph_norm = p[1]
          /\ am_db.Card_Morph_Map[1].morph_inflected = p[2]
          /\ RowsOf(q) > RowsOf(p)
          /\ caches.morph_priority[KeyOf(q)] = 0
          /\ caches.morph_priority[KeyOf(p)] = 1

\* the cards of the list that are not new
OtherPositions == {k \in 1..Len(modified_cards) : k \notin NewPositions}

\* tags, focus-morph field and difficulty field of a note of the collection
\* are as they were when the run started
NoteKept(nid) ==
    /\ col_notes[nid].tags = hist.notes[nid].tags
    /\ col_notes[nid].fields[2] = hist.notes[nid].fields[2]
    /\ col_notes[nid].fields[3] = hist.notes[nid].fields[3]

\* C15 as stated: after a run, every processed card that is not new has the
\* due it had before the run, and its note has the tags, the focus-morph
\* field and the difficulty field it had before the run.
C15_OnlyNewCardsChanged ==
    pc = "succeeded" =>
        \A k \in OtherPositions :
            /\ col_cards[modified_cards[k].id].due
                  = hist.cards[modified_cards[k].id].due
            /\ NoteKept(col_cards[modified_cards[k].id].nid)

\* C15 amended: after a run, every processed card that is not new has the
\* due it had before the run; its note has the tags, the focus-morph field
\* and the difficulty field it had before the run when no new card of the
\* same note was processed in the run.
C15_OnlyNewCardsAndTheirNotesChanged ==
    pc = "succeeded" =>
        \A k \in OtherPositions :
            LET nid == col_cards[modified_cards[k].id].nid IN
            /\ col_cards[modified_cards[k].id].due
                  = hist.cards[modified_cards[k].id].due
            /\ (\A j \in NewPositions : col_cards[modified_cards[j].id].nid # nid)
                  => NoteKept(nid)

\* C15 witness: a run wrote the highlighted field of the note of a review
\* card, and a new card was given a new due in the same run.
C15_Witness ==
    /\ pc = "succeeded"
    /\ \E k \in OtherPositions :
          LET nid == col_cards[modified_cards[k].id].nid IN
          /\ \A j \in NewPositions : col_cards[modified_cards[j].id].nid # nid
          /\ col_notes[nid].fields[HighlightedField]
                # hist.notes[nid].fields[HighlightedField]
    /\ \E j \in NewPositions :
          col_cards[modified_cards[j].id].due # hist.cards[modified_cards[j].id].due

\* C16: while a run is in progress, the cards and notes of the collection
\* change only in the two writes that end update_cards, after the loop over
\* every filter and after the unique-due pass: the cards all in one step,
\* new cards getting their final due and never a pending one, then the notes.
C16_CommitOnlyAtEnd ==
    [][(pc # "idle" /\ (col_cards' # col_cards \/ col_notes' # col_notes)) =>
          /\ loop.filter > Len(get_modify_enabled_filters)
          /\ \/ /\ pc = "col_update_cards"
                /\ col_cards = hist.cards /\ col_notes = hist.notes
                /\ col_notes' = col_notes
                /\ col_cards' = col_update_cards(col_cards, modified_cards)
                /\ \A k \in NewPositions :
                      col_cards'[modified_cards[k].id].due = count_new_cards + k - 1
             \/ /\ pc = "col_update_notes"
                /\ col_cards' = col_cards
                /\ col_notes = hist.notes
                /\ pc' = "succeeded"]_vars

\* C16 witness: the cards have been written, two of them with a new due, and
\* the notes not yet.
C16_Witness ==
    /\ pc = "col_update_notes"
    /\ \E c \in DOMAIN col_cards, d \in DOMAIN col_cards :
          /\ c # d
          /\ col_cards[c].due # hist.cards[c].due
          /\ col_cards[d].due # hist.cards[d].due

\* the place of a card in the list after the step
PlaceAfter(card_id) ==
    CHOOSE k \in 1..Len(modified_cards') : modified_cards'[k].id = card_id

\* C17: the unique-due pass keeps the order of the new cards: of two new
\* cards of the list, the one with the strictly smaller pending due gets
\* the strictly smaller final due, and of two with equal pending dues the
\* one processed first does.
C17_PassKeepsOrder ==
    [][(pc = "unique_due" /\ pc' = "col_update_cards") =>
          \A i \in NewPositions, j \in NewPositions :
              (\/ modified_cards[i].due < modified_cards[j].due
               \/ modified_cards[i].due = modified_cards[j].due /\ i < j)
                 => /\ PlaceAfter(modified_cards[i].id) < PlaceAfter(modified_cards[j].id)
                    /\ modified_cards'[PlaceAfter(modified_cards[i].id)].due
                          < modified_cards'[PlaceAfter(modified_cards[j].id)].due]_vars

\* C17 witness: the pass has put a new card before a new card that was
\* processed before it (the notes are still in the order of processing).
C17_Witness ==
    /\ pc = "col_update_cards"
    /\ Len(modified_cards) >= 2
    /\ NewPositions = 1..Len(modified_cards)
    /\ col_cards[modified_cards[1].id].nid # modified_notes[1].id
    /\ modified_cards[1].id > modified_cards[2].id

\* the cached cards that contain a morpheme, and the interval a cached card
\* counts with: the known interval when its note was tagged known
CardsWith(p) ==
    {r.card_id : r \in {x \in Range(am_db.Card_Morph_Map) :
                           x.morph_norm = p[1] /\ x.morph_inflected = p[2]}}

EffectiveInterval(card_id) ==
    LET row == CHOOSE r \in Range(am_db.Cards) : r.card_id = card_id IN
    IF tag_known \in Range(row.tags) THEN recalc_interval_for_known
    ELSE col_cards[card_id].ivl

\* C18: after a rebuild, the interval update_cards reads for a morpheme is
\* the largest effective interval of the cached cards that contain it,
\* whichever of them was read first; so it is 0 only if all of them have
\* effective interval 0.
C18_CacheHoldsHighestInterval ==
    CachesRead =>
        \A p \in MapPairs :
            /\ KeyOf(p) \in DOMAIN caches.morph_cache
            /\ \E c \in CardsWith(p) :
                  caches.morph_cache[KeyOf(p)] = EffectiveInterval(c)
            /\ \A c \in CardsWith(p) :
                  caches.morph_cache[KeyOf(p)] >= EffectiveInterval(c)

\* C18 witness: a morpheme is in a card tagged known that was read first and
\* in a card of a smaller interval read after it: the cache holds the known
\* interval.
C18_Witness ==
    /\ CachesRead
    /\ \E p \in MapPairs : \E c \in CardsWith(p), d \in CardsWith(p) :
          /\ c < d
          /\ EffectiveInterval(c) = recalc_interval_for_known
          /\ col_cards[c].ivl < recalc_interval_for_known
          /\ EffectiveInterval(d) < EffectiveInterval(c)
          /\ caches.morph_cache[KeyOf(p)] = recalc_interval_for_known

\* C19 as stated: the pass over a new card adds the known tag to its note
\* only when the card has cached morphemes and none of them has interval 0;
\* a new card without cached morphemes is not tagged known.
C19_KnownTagOnlyWithKnownMorphs ==
    Pending =>
        \A k \in NewPositions :
            (/\ tag_known \in Range(modified_notes[k].tags)
             /\ tag_known \notin Range(col_notes[modified_notes[k].id].tags))
                => /\ k \notin NoMorphPositions
                   /\ UnknownCount(modified_cards[k].id) = 0

-----------------------------------------------------------------------------
(* Harness of the readers of ankimorphs.db: the tables as cache_anki_data   *)
(* saves them for two cards, with a tokenizer whose lemmas and surface forms *)
(* have one or two letters; update_cards then reads its caches.              *)

RDPairs == {<<<<"a">>, <<"a", "b">>>>, <<<<"a", "a">>, <<"b">>>>, <<<<"b">>, <<"b">>>>}

\* the morphemes of a card in the order they are iterated: distinct pairs
RDLists == {l \in SeqsUpTo(RDPairs, 2) :
               l # <<>> /\ \A i, j \in 1..Len(l) : i # j => l[i] # l[j]}

RDIntervals == {0, 5}

\* the rows cache_anki_data appends for a card
RDCardRow(card_id, list) ==
    [card_id |-> card_id, note_id |-> card_id, note_type_id |-> BasicId,
     card_type |-> CARD_TYPE_NEW,
     fields |-> <<Concat([k \in 1..Len(list) |-> list[k][2]]), <<>>, <<>>, <<>>>>,
     tags |-> <<>>]

RDMorphRows(list, interval) ==
    [k \in 1..Len(list) |->
        [norm |-> list[k][1], inflected |-> list[k][2],
         highest_learning_interval |-> interval]]

RDMapRows(card_id, list) ==
    [k \in 1..Len(list) |->
        [card_id |-> card_id, morph_norm |-> list[k][1],
         morph_inflected |-> list[k][2]]]

RDInit ==
    /\ \E l1 \in RDLists, l2 \in RDLists, i1 \in RDIntervals, i2 \in RDIntervals :
          /\ col_cards = <<CardOf(1, IF i1 = 0 THEN CARD_TYPE_NEW ELSE CARD_TYPE_REV,
                                  i1, 1, 0),
                           CardOf(2, IF i2 = 0 THEN CARD_TYPE_NEW ELSE CARD_TYPE_REV,
                                  i2, 2, 0)>>
          /\ col_notes = <<NoteOf(BasicId, RDCardRow(1, l1).fields[1], <<>>),
                           NoteOf(BasicId, RDCardRow(2, l2).fields[1], <<>>)>>
          /\ am_db =
               [Cards |-> insert_many_into_card_table(<<>>,
                              <<RDCardRow(1, l1), RDCardRow(2, l2)>>),
                Morphs |-> insert_many_into_morph_table(<<>>,
                              RDMorphRows(l1, i1) \o RDMorphRows(l2, i2)),
                Card_Morph_Map |-> insert_many_into_card_morph_map_table(<<>>,
                              RDMapRows(1, l1) \o RDMapRows(2, l2))]
    /\ am_config = Config(<<FBasic>>, TRUE, FALSE, FALSE)
    /\ pc = "update_cards" /\ error = "" /\ want_cancel = FALSE /\ progress = TRUE
    /\ outcome = ""
    /\ loop = NoLoop
    /\ tables = NoTables
    /\ caches = NoCaches
    /\ modified_cards = <<>> /\ modified_notes = <<>>
    /\ hist = [cards |-> col_cards, notes |-> col_notes, db |-> EmptyTables,
               cancel_seen |-> "", has_last |-> FALSE, last_cards |-> col_cards,
               last_notes |-> col_notes, last_map |-> <<>>, quiet |-> TRUE,
               reviews |-> 0, runs |-> 1]
    /\ HLIdle /\ SCIdle /\ TGIdle /\ CPIdle /\ UIIdle

RDNext == UpdateBegin

RDSpec == RDInit /\ [][RDNext]_vars

\* the interval of a morpheme in the table Morphs
IntervalOf(p) ==
    (CHOOSE r \in Range(am_db.Morphs) : r.norm = p[1] /\ r.inflected = p[2])
        .highest_learning_interval

\* C20 as stated: two morphemes with different (norm, inflected) pairs have
\* different keys, so each has its own entry in morph_cache and in the
\* priority map, and the interval read for a morpheme is its own.
C20_OneEntryPerMorpheme ==
    CachesRead =>
        /\ \A p \in MapPairs, q \in MapPairs : p # q => KeyOf(p) # KeyOf(q)
        /\ Cardinality(DOMAIN caches.morph_cache) = Cardinality(MapPairs)
        /\ am_config.recalc_prioritize_collection =>
              Cardinality(DOMAIN caches.morph_priority) = Cardinality(MapPairs)
        /\ \A p \in MapPairs : caches.morph_cache[KeyOf(p)] = IntervalOf(p)

-----------------------------------------------------------------------------
(* Harness of cache_anki_data: two cards of the Basic note type, their      *)
(* notes with or without the known tag, with one read filter or with two    *)
(* read filters of that note type on different fields; one run up to the    *)
(* point where update_cards has read its caches.                            *)

\* a read filter on the first field, and one on the second field
FFirst == Filter("Basic", BasicId, <<"">>, FALSE)

FSecond == [FFirst EXCEPT !.field_index = 1]

\* the second filter with a morphemizer name that is not known
FMissing == [FSecond EXCEPT !.morphemizer_name = "missing"]

CKConfigs == {Config(<<FFirst>>, TRUE, FALSE, FALSE),
              Config(<<FFirst, FSecond>>, TRUE, FALSE, FALSE),
              Config(<<FFirst, FMissing>>, TRUE, FALSE, FALSE)}

CKExpressions == {<<"a">>, <<"a", "a">>, <<"a", "B">>}

CKSecondFields == {<<>>, <<"b">>}

CKTags == {<<>>, <<tag_known>>}

CKIntervals == {0, ReviewIvl, 30}

CKNotes ==
    {[mid |-> BasicId, fields |-> <<e, f, <<>>, <<>>>>, tags |-> t] :
        e \in CKExpressions, f \in CKSecondFields, t \in CKTags}

CKCard(nid, ivl) ==
    CardOf(nid, IF ivl = 0 THEN CARD_TYPE_NEW ELSE CARD_TYPE_REV, ivl, nid, 0)

CKInit ==
    /\ \E n1 \in CKNotes, n2 \in CKNotes, i1 \in CKIntervals, i2 \in CKIntervals :
          /\ col_cards = <<CKCard(1, i1), CKCard(2, i2)>>
          /\ col_notes = <<n1, n2>>
    /\ am_config \in CKConfigs
    /\ am_db = StaleTables
    /\ pc = "idle" /\ error = "" /\ want_cancel = FALSE /\ progress = FALSE
    /\ outcome = ""
    /\ loop = NoLoop
    /\ tables = NoTables
    /\ caches = NoCaches
    /\ modified_cards = <<>> /\ modified_notes = <<>>
    /\ hist = [cards |-> col_cards, notes |-> col_notes, db |-> am_db,
               cancel_seen |-> "", has_last |-> FALSE, last_cards |-> col_cards,
               last_notes |-> col_notes, last_map |-> <<>>, quiet |-> TRUE,
               reviews |-> 0, runs |-> 0]
    /\ HLIdle /\ SCIdle /\ TGIdle /\ CPIdle /\ UIIdle

CKNext ==
    \/ Recalc
    \/ CacheBegin
    \/ CacheFilter
    \/ CacheCard
    \/ CacheSave
    \/ UpdateBegin

CKSpec == CKInit /\ [][CKNext]_vars

\* the caching loop has appended rows that are not saved yet
Caching == pc \in {"cache_filter", "cache_card", "cache_save"}

\* the card of the k-th appended morph row: the association rows are
\* appended in step with the morph rows
RowCard(k) == tables.card_morph_map_table_data[k].card_id

CarriesKnownTag(card_id) == tag_known \in Range(col_notes[col_cards[card_id].nid].tags)

\* C22: every morph row that cache_anki_data appends for a card carries
\* recalc_interval_for_known if the card's note has the known tag, also when
\* the card's interval is larger or is 0, and else the card's interval.
C22_KnownTagGivesKnownInterval ==
    Caching =>
        /\ Len(tables.morph_table_data) = Len(tables.card_morph_map_table_data)
        /\ \A k \in 1..Len(tables.morph_table_data) :
              tables.morph_table_data[k].highest_learning_interval =
                  IF CarriesKnownTag(RowCard(k)) THEN recalc_interval_for_known
                  ELSE col_cards[RowCard(k)].ivl

\* rows of a tagged card with a larger interval and of an untagged card
C22_Witness ==
    /\ pc = "cache_save"
    /\ \E k, j \in 1..Len(tables.morph_table_data) :
          /\ CarriesKnownTag(RowCard(k))
          /\ col_cards[RowCard(k)].ivl > recalc_interval_for_known
          /\ tables.morph_table_data[k].highest_learning_interval
                = recalc_interval_for_known
          /\ ~CarriesKnownTag(RowCard(j))
          /\ tables.morph_table_data[j].highest_learning_interval = ReviewIvl

\* the association rows of a card as the entries of its list
RowEntries(card_id) ==
    {MorphDict(r.morph_norm, r.morph_inflected) :
        r \in {x \in Range(am_db.Card_Morph_Map) : x.card_id = card_id}}

\* C23 as stated: the list get_card_morph_map_cache returns for a card holds
\* every association row of that card in Card_Morph_Map, also when the rows
\* of the card are not adjacent.
C23_ListHoldsEveryRow ==
    CachesRead =>
        \A card_id \in {r.card_id : r \in Range(am_db.Card_Morph_Map)} :
            /\ card_id \in DOMAIN caches.card_morph_map_cache
            /\ RowEntries(card_id)
                  \subseteq Range(caches.card_morph_map_cache[card_id])

-----------------------------------------------------------------------------
(* Harness of the checkpoints: one card loop of cache_anki_data or of       *)
(* update_cards over more cards than a checkpoint interval, the card's work *)
(* left out; the user may click cancel before any pass.                     *)

\* numbers of cards of the filter: below, at and past one and two intervals
CPAmounts == {1, CheckpointEvery, CheckpointEvery + 1, 2 * CheckpointEvery + 1}

\* the passes before which the user may click cancel
CPClicks == {0, 1, CheckpointEvery - 1, CheckpointEvery, CheckpointEvery + 1,
             2 * CheckpointEvery - 1, 2 * CheckpointEvery}

\* a pass that reads the cancel flag at every card
CPEveryCard == TRUE

\* if counter % 1000 == 0
CPCheckpoint == cp.counter % CheckpointEvery = 0

CPInit ==
    /\ \E amount \in CPAmounts :
          cp = [amount |-> amount, counter |-> 0, want_cancel |-> FALSE,
                set_at |-> -1, last |-> -1, read |-> FALSE, processed |-> 0,
                pc |-> "loop"]
    /\ HLIdle /\ SCIdle /\ TGIdle /\ OPIdle /\ UIIdle

\* the user clicks 'x' on the progress window
CPCancel ==
    /\ cp.pc = "loop"
    /\ ~cp.want_cancel
    /\ cp.counter \in CPClicks
    /\ cp.counter < cp.amount
    /\ cp' = [cp EXCEPT !.want_cancel = TRUE, !.set_at = cp.counter]
    /\ UNCHANGED <<hlVars, scVars, tgVars, opVars, ui>>

\* a pass that raises CancelledRecalcException at its checkpoint
CPCancelled ==
    /\ cp.pc = "loop"
    /\ cp.counter < cp.amount
    /\ CPCheckpoint /\ cp.want_cancel
    /\ cp' = [cp EXCEPT !.last = cp.counter, !.read = TRUE, !.pc = "cancelled"]
    /\ UNCHANGED <<hlVars, scVars, tgVars, opVars, ui>>

\* a pass that processes its card
CPCard ==
    /\ cp.pc = "loop"
    /\ cp.counter < cp.amount
    /\ ~(CPCheckpoint /\ cp.want_cancel)
    /\ cp' = [cp EXCEPT !.last = cp.counter, !.read = CPCheckpoint,
                        !.processed = @ + 1, !.counter = @ + 1]
    /\ UNCHANGED <<hlVars, scVars, tgVars, opVars, ui>>

\* the cards of the filter are exhausted
CPEnd ==
    /\ cp.pc = "loop"
    /\ cp.counter = cp.amount
    /\ cp' = [cp EXCEPT !.pc = "done"]
    /\ UNCHANGED <<hlVars, scVars, tgVars, opVars, ui>>

CPNext ==
    \/ CPCancel
    \/ CPCancelled
    \/ CPCard
    \/ CPEnd

CPSpec == CPInit /\ [][CPNext]_vars

\* C24: in a card loop the cancel flag is read exactly in the passes whose
\* 0-based position is a multiple of 1000; such a pass with the flag set
\* raises cancelled and leaves its card unprocessed; any other pass processes
\* its card whatever the flag is; and once the flag is set no more than 1000
\* further cards are processed.
C24_CancelOnlyAtCheckpoint ==
    cp.last >= 0 =>
        /\ cp.read = (cp.last % 1000 = 0)
        /\ cp.pc = "cancelled" =>
              cp.last % 1000 = 0 /\ cp.want_cancel /\ cp.processed = cp.last
        /\ (cp.last % 1000 = 0 /\ cp.set_at >= 0 /\ cp.set_at <= cp.last) =>
              cp.pc = "cancelled"
        /\ cp.last % 1000 # 0 => cp.pc # "cancelled" /\ cp.processed = cp.last + 1
        /\ cp.want_cancel => cp.processed - cp.set_at <= 1000

\* the flag was set just after a checkpoint and the loop went on to the next
\* checkpoint, where it was cancelled
C24_Witness ==
    /\ cp.pc = "cancelled"
    /\ cp.set_at = 1
    /\ cp.last = 1000
    /\ cp.processed = 1000

\* the association rows that a pass of the caching loop appends
AppendedRows ==
    SubSeq(tables'.card_morph_map_table_data,
           Len(tables.card_morph_map_table_data) + 1,
           Len(tables'.card_morph_map_table_data))

\* the (norm, inflected) pairs of the morphemes the tokenizer finds
PairsIn(expression) ==
    {<<m.norm, m.inflected>> : m \in Range(get_morphemes(expression))}

\* C25: a pass of the caching loop appends the Cards row of its card and
\* one association row for each distinct (norm, inflected) morpheme of the
\* card's expression, however often the morpheme occurs in it; when the
\* extraction fails with a KeyError it appends the Cards row and no
\* association row.
C25_OneRowPerDistinctMorph ==
    [][(pc = "cache_card" /\ loop' # loop) =>
          LET config_filter == get_read_enabled_filters[loop.filter]
              card_data == loop.cards[loop.counter + 1]
          IN /\ tables'.card_table_data # tables.card_table_data
             /\ Len(tables'.card_table_data) = Len(tables.card_table_data) + 1
             /\ tables'.card_table_data[Len(tables'.card_table_data)].card_id
                   = card_data.card_id
             /\ NoDuplicates(AppendedRows)
             /\ \A k \in 1..Len(AppendedRows) :
                   AppendedRows[k].card_id = card_data.card_id
             /\ {<<r.morph_norm, r.morph_inflected>> : r \in Range(AppendedRows)}
                   = IF config_filter.morphemizer_name \in morphemizers_by_name
                     THEN PairsIn(card_data.expression)
                     ELSE {}]_vars

RowsOfCard(list, card_id) == SelectSeq(list, LAMBDA r : r.card_id = card_id)

\* a card whose expression holds one morpheme twice has one association row,
\* and its second pass, where the extraction failed, added a Cards row only
C25_Witness ==
    /\ pc = "cache_save"
    /\ FMissing \in Range(am_config.filters)
    /\ col_notes[1].fields[1] = <<"a", "a">>
    /\ col_notes[1].fields[2] = <<"b">>
    /\ Len(RowsOfCard(tables.card_morph_map_table_data, 1)) = 1
    /\ Len(RowsOfCard(tables.card_table_data, 1)) = 2

\* the inserts of the run are done and its lists are still at hand
Saved == pc \in {"update_cards", "update_filter", "update_card", "unique_due",
                 "col_update_cards", "col_update_notes", "succeeded"}

\* C26: once a run has done its inserts, the cache holds exactly the rows
\* that this run collected, as inserted into empty tables: no row of the
\* cache as it was before the run is left, and the caches that update_cards
\* scores with are read from these rows.
C26_CacheHoldsLatestRunOnly ==
    Saved =>
        /\ am_db.Cards = insert_many_into_card_table(<<>>, tables.card_table_data)
        /\ am_db.Morphs = insert_many_into_morph_table(<<>>, tables.morph_table_data)
        /\ am_db.Card_Morph_Map =
              insert_many_into_card_morph_map_table(<<>>,
                  tables.card_morph_map_table_data)
        /\ \A r \in Range(am_db.Cards) : r.card_id \in DOMAIN col_cards
        /\ CachesRead =>
              caches.card_morph_map_cache
                  = get_card_morph_map_cache(am_db.Card_Morph_Map)

\* a second run has saved a cache that differs from the one the first run
\* left, which itself had replaced the cache of a card since deleted
C26_Witness ==
    /\ pc = "update_filter"
    /\ hist.runs = 2
    /\ hist.has_last
    /\ hist.db # StaleTables
    /\ am_db.Morphs # hist.db.Morphs

\* a step in which on_success or on_failure runs
RunEnds == pc \in {"succeeded", "failed"} /\ pc' = "idle"

HandledErrors == {"DefaultSettingsException", "CancelledRecalcException"}

\* C27: the progress indicator is started by recalc() and by nothing else,
\* it is finished by the step that ends the run and by nothing else, and
\* every such step finishes it, after success and after any failure; a
\* failure that is neither a configuration error nor a cancellation is
\* raised again by on_failure, with the indicator finished, and the two
\* handled failures are not.
C27_ProgressFinishedOnceAndErrorRaised ==
    [][/\ (~progress /\ progress') => (pc = "idle" /\ pc' = "cache_anki_data")
       /\ (progress /\ ~progress') => RunEnds
       /\ RunEnds => (progress /\ ~progress')
       /\ (RunEnds /\ pc = "failed") =>
             ((outcome' = "raise") <=> (error \notin HandledErrors))
       /\ (RunEnds /\ pc = "succeeded") => outcome' = "Finished Recalc"]_vars

\* a run has ended with a failure of another kind, raised again
C27_Witness ==
    /\ pc = "idle"
    /\ error = "KeyError"
    /\ outcome = "raise"
    /\ ~progress

\* the modify filter under which the k-th modified note was processed
FilterAt(k) ==
    CHOOSE f \in Range(get_modify_enabled_filters) :
        f.note_type_id = col_notes[modified_notes[k].id].mid

\* the surface forms of a card's morphemes with interval 0, in list order
UnknownSurfaces(card_id) ==
    IF card_id \notin DOMAIN caches.card_morph_map_cache THEN <<>>
    ELSE LET unknown == SelectSeq(caches.card_morph_map_cache[card_id],
                            LAMBDA m : caches.morph_cache[m.entire_morph] = 0)
         IN [i \in 1..Len(unknown) |-> unknown[i].inflected_morph]

\* the strings of a list with ", " between them
RECURSIVE JoinComma(_)
JoinComma(list) ==
    IF list = <<>> THEN <<>>
    ELSE IF Len(list) = 1 THEN list[1]
    ELSE list[1] \o <<",", " ">> \o JoinComma(Tail(list))

Designated(f) ==
    {f.focus_morph_field_index, f.difficulty_field_index,
     f.highlighted_field_index} \ {0}

\* C28: the note of a processed new card has in its focus-morph field, when
\* one is designated, the card's unknown surface forms joined by ", " with
\* nothing after the last one (empty when there is none), in its difficulty
\* field, when one is designated, the decimal text of the pending due, and
\* in every field that is not designated what the note had before.
C28_OutputFieldsWritten ==
    Pending =>
        \A k \in 1..Len(modified_notes) :
            modified_cards[k].type = CARD_TYPE_NEW =>
                LET f == FilterAt(k)
                    before == col_notes[modified_notes[k].id].fields
                    after == modified_notes[k].fields
                IN /\ f.focus_morph_field_index > 0 =>
                         after[f.focus_morph_field_index]
                            = JoinComma(UnknownSurfaces(modified_cards[k].id))
                   /\ f.difficulty_field_index > 0 =>
                         after[f.difficulty_field_index]
                            = str(modified_cards[k].due)
                   /\ \A i \in 1..Len(after) :
                         i \notin Designated(f) => after[i] = before[i]

\* a new card with two unknowns under a filter with output fields, and a new
\* card under a filter without them
C28_Witness ==
    /\ Pending
    /\ \E k \in 1..Len(modified_notes) :
          /\ modified_cards[k].type = CARD_TYPE_NEW
          /\ FilterAt(k).focus_morph_field_index > 0
          /\ modified_notes[k].fields[FilterAt(k).focus_morph_field_index]
                = <<"a", ",", " ", "b">>
          /\ modified_notes[k].fields[FilterAt(k).difficulty_field_index]
                = str(modified_cards[k].due)
          /\ modified_cards[k].due >= 2 * morph_unknown_penalty

-----------------------------------------------------------------------------
(* The add-on in the host's windows: what main() hooks up, and the hooks    *)
(* as profiles are opened and closed, the browser is opened, a context menu *)
(* is shown and a card is answered.                                         *)

MaxProfileOpens == 5

MaxAnswered == 3

\* the menu added whether or not the Tools menu already has one
init_tool_menu_unguarded(tool_menus) == tool_menus + 1

\* for action in mw.form.menuTools.actions(): if objectName() == TOOL_MENU:
\* return; else create_am_tool_menu() adds the menu and names its action
init_tool_menu_and_actions(tool_menus) ==
    IF tool_menus > 0 THEN tool_menus ELSE tool_menus + 1

\* hooks.wrap(Reviewer.nextCard, am_next_card, "around"): one more wrapper
replace_reviewer_functions(wraps) == wraps + 1

\* one copy of setup_browser_menu on a menu bar with `menus` AnkiMorphs menus
setup_browser_menu(menus) == IF menus > 0 THEN menus ELSE menus + 1

\* one copy of setup_context_menu on a context menu to which the AnkiMorphs
\* actions were added `groups` times, the separator named CONTEXT_MENU with them
setup_context_menu(groups) == IF groups > 0 THEN groups ELSE groups + 1

\* the host runs every function appended to a hook, in order
RECURSIVE browser_menus_did_init(_, _)
browser_menus_did_init(copies, menus) ==
    IF copies = 0 THEN menus
    ELSE browser_menus_did_init(copies - 1, setup_browser_menu(menus))

RECURSIVE browser_will_show_context_menu(_, _)
browser_will_show_context_menu(copies, groups) ==
    IF copies = 0 THEN groups
    ELSE browser_will_show_context_menu(copies - 1, setup_context_menu(groups))

\* the state when main() has appended its functions to the hooks
UIInit ==
    /\ ui = [profile_open |-> FALSE, opens |-> 0, tool_menus |-> 0, wraps |-> 0,
             browser_hooks |-> 0, context_hooks |-> 0, browser_open |-> FALSE,
             browser_menus |-> 0, context_groups |-> -1, seen_table |-> FALSE,
             seen |-> {}]
    /\ HLIdle /\ SCIdle /\ TGIdle /\ OPIdle /\ CPIdle

\* gui_hooks.profile_did_open: init_tool_menu_and_actions,
\* replace_reviewer_functions, init_browser_menus_and_actions
ProfileOpen ==
    /\ ~ui.profile_open
    /\ ui.opens < MaxProfileOpens
    /\ ui' = [ui EXCEPT !.profile_open = TRUE,
                        !.opens = @ + 1,
                        !.tool_menus = init_tool_menu_and_actions(@),
                        !.seen_table = TRUE,
                        !.wraps = replace_reviewer_functions(@),
                        !.browser_hooks = @ + 1,
                        !.context_hooks = @ + 1]
    /\ UNCHANGED <<hlVars, scVars, tgVars, opVars, cp>>

\* gui_hooks.profile_will_close: reset_seen_morphs; the host closes the browser
ProfileClose ==
    /\ ui.profile_open
    /\ ui' = [ui EXCEPT !.profile_open = FALSE, !.seen_table = FALSE,
                        !.seen = {}, !.browser_open = FALSE,
                        !.browser_menus = 0, !.context_groups = -1]
    /\ UNCHANGED <<hlVars, scVars, tgVars, opVars, cp>>

\* gui_hooks.browser_menus_did_init, on the menu bar of a new browser
BrowserOpen ==
    /\ ui.profile_open
    /\ ~ui.browser_open
    /\ ui' = [ui EXCEPT !.browser_open = TRUE,
                        !.browser_menus =
                            browser_menus_did_init(ui.browser_hooks, 0),
                        !.context_groups = -1]
    /\ UNCHANGED <<hlVars, scVars, tgVars, opVars, cp>>

\* the user closes the browser window
BrowserClose ==
    /\ ui.browser_open
    /\ ui' = [ui EXCEPT !.browser_open = FALSE, !.browser_menus = 0,
                        !.context_groups = -1]
    /\ UNCHANGED <<hlVars, scVars, tgVars, opVars, cp>>

\* gui_hooks.browser_will_show_context_menu, on a new context menu
ContextMenu ==
    /\ ui.browser_open
    /\ ui' = [ui EXCEPT !.context_groups =
                            browser_will_show_context_menu(ui.context_hooks, 0)]
    /\ UNCHANGED <<hlVars, scVars, tgVars, opVars, cp>>

\* gui_hooks.reviewer_did_answer_card: mark_morph_seen_wrapper
AnswerCard(card_id) ==
    /\ ui.profile_open
    /\ card_id \notin ui.seen
    /\ ui' = [ui EXCEPT !.seen = @ \cup {card_id}]
    /\ UNCHANGED <<hlVars, scVars, tgVars, opVars, cp>>

UINext ==
    \/ ProfileOpen
    \/ ProfileClose
    \/ BrowserOpen
    \/ BrowserClose
    \/ ContextMenu
    \/ \E card_id \in 1..MaxAnswered : AnswerCard(card_id)

UISpec == UIInit /\ [][UINext]_vars

\* C29: once a profile has been opened the Tools menu has exactly one
\* AnkiMorphs menu, and never more than one; the menu bar of the browser has
\* at most one AnkiMorphs menu; and a context menu that is shown has received
\* the AnkiMorphs actions at most once.
C29_NoDuplicateMenus ==
    ui # EmptyDict =>
        /\ ui.tool_menus <= 1
        /\ ui.opens >= 1 => ui.tool_menus = 1
        /\ ui.browser_menus <= 1
        /\ ui.browser_open => ui.browser_menus = 1
        /\ ui.context_groups <= 1

\* after a profile switch, with the hooks of the browser appended twice, the
\* browser is open and a context menu has been shown
C29_Witness ==
    /\ ui # EmptyDict
    /\ ui.opens >= 2
    /\ ui.browser_hooks >= 2
    /\ ui.context_hooks >= 2
    /\ ui.browser_open
    /\ ui.browser_menus = 1
    /\ ui.context_groups = 1
    /\ ui.tool_menus = 1

\* C30 as stated: after any number of profile openings the reviewer's
\* nextCard is wrapped by the skipping logic exactly once, and the
\* seen-morphs store is gone whenever the profile is closed.
C30_NextCardWrappedOnce ==
    ui # EmptyDict =>
        /\ ui.opens >= 1 => ui.wraps = 1
        /\ ~ui.profile_open => (~ui.seen_table /\ ui.seen = {})

====
